---------------------------- MODULE Spec2Model ----------------------------
(***************************************************************************)
(* A model of the SNOMOR path solver: the mixed graph (graph.rs), its      *)
(* shortest-path and strongly-connected-component algorithms, the          *)
(* single-vehicle postman heuristic solve_pwrp, the fix_sccs pruning and   *)
(* the annealing driver PlowSolver::solve (plow.rs).                       *)
(*                                                                         *)
(* Conventions.                                                            *)
(*  - An edge is a record [p1, p2, d, directed, w]: the endpoints, the     *)
(*    discriminator (NoDisc when absent), the directed flag and the        *)
(*    weight (length).  Rust's Eq/Hash of an edge read p1, p2 and the      *)
(*    discriminator only, so every HashSet<E> operation below goes through *)
(*    SameEdge, never through TLA+ equality of records.                    *)
(*  - N64 weights are integers; N64::infinity() is the pair <<1, 0>> and   *)
(*    a finite value v the pair <<0, v>>.                                  *)
(*  - The iteration order of a HashSet / HashMap is not fixed by the       *)
(*    program.  Every algorithm that iterates one takes the order as an    *)
(*    argument (eo: a sequence of edge keys, no: a sequence of nodes) and  *)
(*    the actions draw it with \E.                                         *)
(***************************************************************************)
EXTENDS Integers, Sequences, FiniteSets, TLC

VARIABLES
    g,          \* the graph: [nodes, edges]
    pc,         \* position of the program
    args,       \* the inputs of the operation under way
    ret,        \* the value the last operation returned
    \* the locals of PlowSolver::solve
    alloc,      \* vehicle -> the set of snowy edges allocated to it
    solution,   \* vehicle -> its tour, a sequence of edges
    order,      \* the order in which the vehicles are served
    best,       \* [value, max]: value_best and cost_max_best
    iter,       \* [mi, ii, cooled]: the iteration counters and the coolings so far
    next        \* the candidate of the iteration under way

driver == <<alloc, solution, order, best, iter, next>>

vars == <<g, pc, args, ret, alloc, solution, order, best, iter, next>>

----------------------------------------------------------------------------
(* Bounds of the model *)

\* nodes are 0 .. NumNodes-1
NumNodes == 3
\* an input graph of the graph algorithms holds at most MaxEdges edges
MaxEdges == 3

Nodes == 0 .. (NumNodes - 1)

----------------------------------------------------------------------------
(* Generic helpers *)

None == [none |-> TRUE]

IsNone(x) == x = None

Some(x) == [none |-> FALSE, v |-> x]

RECURSIVE SetToSeqs(_)
\* every sequence that lists the elements of S once (the iteration orders of a hash set)
SetToSeqs(S) ==
    IF S = {} THEN {<<>>}
    ELSE UNION {{<<x>> \o s : s \in SetToSeqs(S \ {x})} : x \in S}

RECURSIVE SumSeq(_)
SumSeq(s) == IF s = <<>> THEN 0 ELSE Head(s) + SumSeq(Tail(s))

Range(s) == {s[i] : i \in DOMAIN s}

Reverse(s) == [i \in 1..Len(s) |-> s[Len(s) + 1 - i]]

----------------------------------------------------------------------------
(* Edge: trait Edge (graph.rs 15-48) and road::RoadEdge (plow.rs 413-446) *)

\* discriminator: Option<SID>; None is -1
NoDisc == 0 - 1

RoadEdge(p1, p2, d, directed, w) ==
    [p1 |-> p1, p2 |-> p2, d |-> d, directed |-> directed, w |-> w]

\* the key that PartialEq and Hash of road::RoadEdge read
Key(e) == <<e.p1, e.p2, e.d>>

\* PartialEq as #[derive(PartialEq)] would give it: every field is compared
SameEdgeDerived(a, b) == a = b

\* PartialEq for road::RoadEdge
SameEdge(a, b) == a.p1 = b.p1 /\ a.p2 = b.p2 /\ a.d = b.d

is_cyclic(e) == e.p1 = e.p2

other(e, id) == IF id = e.p1 THEN e.p2 ELSE e.p1

is_incoming(e, id, DIRESPECT) ==
    id = e.p2 \/ (id = e.p1 /\ (~DIRESPECT \/ ~e.directed))

is_outgoing(e, id, DIRESPECT) ==
    id = e.p1 \/ (id = e.p2 /\ (~DIRESPECT \/ ~e.directed))

weight(e) == e.w

\* the dedirect closure of road::solve: RoadEdge { directed: false, ..e }
dedirect(e) == [e EXCEPT !.directed = FALSE]

(* HashSet<E> *)
contains(S, e) == \E x \in S : SameEdge(x, e)

\* HashSet::insert keeps the element already present
insert(S, e) == IF contains(S, e) THEN S ELSE S \cup {e}

remove(S, e) == {x \in S : ~SameEdge(x, e)}

\* the elements of the hash set S in the iteration order eo (a sequence of keys)
Iter(S, eo) ==
    LET ks == SelectSeq(eo, LAMBDA k : \E x \in S : Key(x) = k)
    IN  [i \in 1..Len(ks) |-> CHOOSE x \in S : Key(x) = ks[i]]

----------------------------------------------------------------------------
(* Graph (graph.rs 57-170) *)

\* Graph::default
EmptyGraph == [nodes |-> << >>, edges |-> << >>]

get_edges(G, n) == IF n \in DOMAIN G.edges THEN G.edges[n] ELSE {}

is_orphan(G, n) == get_edges(G, n) = {}

get_edges_between(G, n1, n2) == {e \in get_edges(G, n1) : other(e, n1) = n2}

\* Graph::edges: each bucket's cyclic edges and the edges that start at its node
edges(G) ==
    UNION {{e \in G.edges[n] : is_cyclic(e) \/ e.p1 = n} : n \in DOMAIN G.edges}

\* HashMap::insert / PriorityQueue::push: set the value of key k
Put(f, k, x) == [n \in (DOMAIN f) \cup {k} |-> IF n = k THEN x ELSE f[n]]

\* Adds (or replaces) a node: id is the node id, n the payload
add_node(G, id, n) == [G EXCEPT !.nodes = Put(@, id, n)]

get_node(G, n) == IF n \in DOMAIN G.nodes THEN Some(G.nodes[n]) ELSE None

\* self.edges.entry(n).or_default(): the bucket of n, created empty when missing
Bucket(E, n) == IF n \in DOMAIN E THEN E[n] ELSE {}

WithBucket(E, n, S) == [k \in (DOMAIN E) \cup {n} |-> IF k = n THEN S ELSE E[k]]

\* has_ends that looks for p1 alone
p1_is_node(G, e) == e.p1 \in DOMAIN G.nodes

\* `self.nodes.contains_key(&e.p1()) && self.nodes.contains_key(&e.p2())`: the test
\* of add_edge and of remove_edge, and the bool that they return
has_ends(G, e) == e.p1 \in DOMAIN G.nodes /\ e.p2 \in DOMAIN G.nodes

add_edge(G, e) ==
    IF has_ends(G, e)
    THEN LET E1 == IF ~is_cyclic(e)
                   THEN WithBucket(G.edges, e.p1, insert(Bucket(G.edges, e.p1), e))
                   ELSE G.edges
             E2 == WithBucket(E1, e.p2, insert(Bucket(E1, e.p2), e))
         IN  [G EXCEPT !.edges = E2]
    ELSE G

\* remove_edge that forgets the bucket of p1
remove_edge_p2_only(G, e) ==
    IF has_ends(G, e)
    THEN [G EXCEPT !.edges = WithBucket(@, e.p2, remove(Bucket(@, e.p2), e))]
    ELSE G

remove_edge(G, e) ==
    IF has_ends(G, e)
    THEN LET E1 == IF ~is_cyclic(e)
                   THEN WithBucket(G.edges, e.p1, remove(Bucket(G.edges, e.p1), e))
                   ELSE G.edges
             E2 == WithBucket(E1, e.p2, remove(Bucket(E1, e.p2), e))
         IN  [G EXCEPT !.edges = E2]
    ELSE G

\* retain_nodes_edges without the loop over the buckets that are kept
retain_nodes_edges_keys_only(G, f) ==
    [G EXCEPT !.edges = [u \in (DOMAIN G.edges) \cap f |-> G.edges[u]]]

\* f is the set of the nodes the predicate accepts
retain_nodes_edges(G, f) ==
    [G EXCEPT !.edges =
        [u \in (DOMAIN G.edges) \cap f |-> {e \in G.edges[u] : other(e, u) \in f}]]

retain_nodes(G, f) ==
    retain_nodes_edges([G EXCEPT !.nodes = [n \in (DOMAIN @) \cap f |-> @[n]]], f)

RECURSIVE path_to_nodes(_, _)
\* the nodes a path visits from n (graph.rs 410-416), without the entering edges
path_to_nodes(path, n) ==
    IF path = <<>> THEN <<n>>
    ELSE <<n>> \o path_to_nodes(Tail(path), other(Head(path), n))

----------------------------------------------------------------------------
(* Shortest paths (graph.rs 206-296) *)

\* the filtering weight function: absent for the edges whose key is in blocked
FW(e, blocked) == IF Key(e) \in blocked THEN None ELSE Some(weight(e))

\* PriorityQueue::pop: an item of the highest priority; among equals, the first in no
QPop(q, no) ==
    LET top == CHOOSE p \in {q[n] : n \in DOMAIN q} : \A n \in DOMAIN q : q[n] <= p
        i   == CHOOSE i \in DOMAIN no :
                   /\ no[i] \in DOMAIN q /\ q[no[i]] = top
                   /\ \A j \in 1..(i - 1) : ~(no[j] \in DOMAIN q /\ q[no[j]] = top)
    IN  no[i]

\* RelaxEdge without the test of the edge's direction
RelaxEdgeAnyDirection(st, u, d, e, blocked, DIRESPECT) ==
    LET ed == FW(e, blocked)
    IN  IF IsNone(ed) THEN st
        ELSE LET v  == other(e, u)
                 d2 == d + ed.v
             IN  IF v \notin DOMAIN st.dp \/ st.dp[v].d > d2
                 THEN [dp |-> Put(st.dp, v, [d |-> d2, e |-> Some(e)]),
                       q  |-> Put(st.q, v, 0 - d2)]
                 ELSE st

\* the body of `for e in self.get_edges(u)` for one edge (graph.rs 228-237)
RelaxEdge(st, u, d, e, blocked, DIRESPECT) ==
    IF ~DIRESPECT \/ ~e.directed \/ e.p1 = u
    THEN LET ed == FW(e, blocked)
         IN  IF IsNone(ed) THEN st
             ELSE LET v  == other(e, u)
                      d2 == d + ed.v
                  IN  IF v \notin DOMAIN st.dp \/ st.dp[v].d > d2
                      THEN [dp |-> Put(st.dp, v, [d |-> d2, e |-> Some(e)]),
                            q  |-> Put(st.q, v, 0 - d2)]
                      ELSE st
    ELSE st

RECURSIVE Relax(_, _, _, _, _, _)
\* `for e in self.get_edges(u)`, es being the bucket in iteration order
Relax(st, u, d, es, blocked, DIRESPECT) ==
    IF es = <<>> THEN st
    ELSE Relax(RelaxEdge(st, u, d, Head(es), blocked, DIRESPECT),
               u, d, Tail(es), blocked, DIRESPECT)

RECURSIVE WalkBack(_, _, _)
\* `while let Some((_, Some(e))) = dp.get(&v)`: follow the predecessor edges from v;
\* path collects them, last edge first
WalkBack(dp, v, path) ==
    IF v \in DOMAIN dp /\ ~IsNone(dp[v].e)
    THEN WalkBack(dp, other(dp[v].e.v, v), path \o <<dp[v].e.v>>)
    ELSE [v |-> v, path |-> Reverse(path)]

RECURSIVE Dijkstra(_, _, _, _, _, _, _)
\* `while let Some((u, _)) = q.pop()` with target set n2 (graph.rs 270-295, and
\* 215-240 with the single target): Some([v, u, path]) or None
Dijkstra(G, st, n2, blocked, DIRESPECT, eo, no) ==
    IF DOMAIN st.q = {} THEN None
    ELSE LET u  == QPop(st.q, no)
             q1 == [n \in (DOMAIN st.q) \ {u} |-> st.q[n]]
         IN  IF u \in n2
             THEN LET b == WalkBack(st.dp, u, <<>>)
                  IN  Some([v |-> b.v, u |-> u, path |-> b.path])
             ELSE Dijkstra(G,
                           Relax([dp |-> st.dp, q |-> q1], u, st.dp[u].d,
                                 Iter(get_edges(G, u), eo), blocked, DIRESPECT),
                           n2, blocked, DIRESPECT, eo, no)

\* pathfind with the test `u == n2` skipped for the source: the edges of n1 are
\* relaxed before any node is tested
pathfind_relax_first(G, n1, n2, blocked, DIRESPECT, eo, no) ==
    LET r == Dijkstra(G,
                      Relax([dp |-> Put(<< >>, n1, [d |-> 0, e |-> None]), q |-> << >>],
                            n1, 0, Iter(get_edges(G, n1), eo), blocked, DIRESPECT),
                      {n2}, blocked, DIRESPECT, eo, no)
    IN  IF IsNone(r) THEN None ELSE Some(r.v.path)

\* Graph::pathfind: Some(path) or None
pathfind(G, n1, n2, blocked, DIRESPECT, eo, no) ==
    LET r == Dijkstra(G,
                      [dp |-> Put(<< >>, n1, [d |-> 0, e |-> None]),
                       q  |-> Put(<< >>, n1, 0)],
                      {n2}, blocked, DIRESPECT, eo, no)
    IN  IF IsNone(r) THEN None ELSE Some(r.v.path)

\* Graph::pathfind_regions: Some([v: the source, u: the target, path]) or None
pathfind_regions(G, n1, n2, blocked, DIRESPECT, eo, no) ==
    IF n1 = {} \/ n2 = {} THEN None
    ELSE Dijkstra(G,
                  [dp |-> [n \in n1 |-> [d |-> 0, e |-> None]],
                   q  |-> [n \in n1 |-> 0]],
                  n2, blocked, DIRESPECT, eo, no)

----------------------------------------------------------------------------
(* Strongly connected components: unrecursed Tarjan (graph.rs 304-373)      *)
(* The state: sccs, index, stack, inf (node -> [on, idx, ll]) and the work  *)
(* stack q of frames [u, es, jr].                                           *)

Min(a, b) == IF a <= b THEN a ELSE b

Last(s) == s[Len(s)]

Front(s) == SubSeq(s, 1, Len(s) - 1)

\* the frame pushed for node v: (v, self.get_edges(v).iter().collect(), false)
Frame(G, v, eo) == [u |-> v, es |-> Iter(get_edges(G, v), eo), jr |-> FALSE]

\* replace the top frame of q
SetTop(st, fr) == [st EXCEPT !.q = Front(st.q) \o <<fr>>]

RECURSIVE PopScc(_, _, _)
\* `loop { let v = stack.pop(); inf[v].0 = false; scc.insert(v); if v == u { break } }`
PopScc(st, u, scc) ==
    LET v   == Last(st.stack)
        st1 == [st EXCEPT !.stack = Front(st.stack), !.inf[v].on = FALSE]
    IN  IF v = u
        THEN [st1 EXCEPT !.sccs = Append(st1.sccs, scc \cup {v})]
        ELSE PopScc(st1, u, scc \cup {v})

\* SccFinish without the test `inf[u].1 == inf[u].2`
SccFinishAlways(st, u) ==
    LET st1 == PopScc(st, u, {})
    IN  [st1 EXCEPT !.q = Front(st1.q)]

\* "generate scc" and q.pop() (graph.rs 354-368)
SccFinish(st, u) ==
    LET st1 == IF st.inf[u].idx = st.inf[u].ll THEN PopScc(st, u, {}) ELSE st
    IN  [st1 EXCEPT !.q = Front(st1.q)]

RECURSIVE SccSucc(_, _, _, _)
\* "look at successors": `while let Some(e) = es.last()` on the top frame, up to
\* the push of an unvisited successor (continue 'unrec) or the end of the frame
SccSucc(G, st, DIRESPECT, eo) ==
    LET fr == Last(st.q)
        u  == fr.u
    IN  IF fr.es = <<>> THEN SccFinish(st, u)
        ELSE LET e      == Last(fr.es)
                 popped == [fr EXCEPT !.es = Front(fr.es)]
             IN  IF is_outgoing(e, u, DIRESPECT)
                 THEN LET v == other(e, u)
                      IN  IF v \notin DOMAIN st.inf
                          THEN \* v has not yet been visited
                               [st EXCEPT !.q = Front(st.q)
                                                \o <<[fr EXCEPT !.jr = TRUE], Frame(G, v, eo)>>]
                          ELSE IF fr.jr
                          THEN \* v was just visited
                               SccSucc(G,
                                   SetTop([st EXCEPT !.inf[u].ll = Min(@, st.inf[v].ll)],
                                          [popped EXCEPT !.jr = FALSE]),
                                   DIRESPECT, eo)
                          ELSE IF st.inf[v].on
                          THEN \* v is in current scc
                               SccSucc(G,
                                   SetTop([st EXCEPT !.inf[u].ll = Min(@, st.inf[v].idx)],
                                          popped),
                                   DIRESPECT, eo)
                          ELSE SccSucc(G, SetTop(st, popped), DIRESPECT, eo)
                 ELSE SccSucc(G, SetTop(st, popped), DIRESPECT, eo)

\* one pass of 'unrec on the top frame (graph.rs 319-369)
SccPass(G, st, DIRESPECT, eo) ==
    LET u   == Last(st.q).u
        st1 == IF u \notin DOMAIN st.inf
               THEN [st EXCEPT !.stack = Append(@, u),
                               !.inf = Put(@, u, [on |-> TRUE, idx |-> st.index, ll |-> st.index]),
                               !.index = @ + 1]
               ELSE st
    IN  SccSucc(G, st1, DIRESPECT, eo)

RECURSIVE SccUnrec(_, _, _, _)
SccUnrec(G, st, DIRESPECT, eo) ==
    IF st.q = <<>> THEN st
    ELSE SccUnrec(G, SccPass(G, st, DIRESPECT, eo), DIRESPECT, eo)

RECURSIVE SccOuter(_, _, _, _, _, _)
\* `for u in self.nodes.keys()`, ks being the keys in iteration order
SccOuter(G, st, ks, DIRESPECT, ORPHANS, eo) ==
    IF ks = <<>> THEN st
    ELSE LET u == Head(ks)
         IN  IF is_orphan(G, u) /\ ~ORPHANS
             THEN SccOuter(G, st, Tail(ks), DIRESPECT, ORPHANS, eo)
             ELSE IF u \notin DOMAIN st.inf
             THEN SccOuter(G,
                           SccUnrec(G, [st EXCEPT !.q = Append(@, Frame(G, u, eo))],
                                    DIRESPECT, eo),
                           Tail(ks), DIRESPECT, ORPHANS, eo)
             ELSE SccOuter(G, st, Tail(ks), DIRESPECT, ORPHANS, eo)

\* Graph::strongly_connected_components: the Vec of the components
strongly_connected_components(G, DIRESPECT, ORPHANS, eo, no) ==
    SccOuter(G,
             [sccs |-> <<>>, index |-> 0, stack |-> <<>>, inf |-> << >>, q |-> <<>>],
             SelectSeq(no, LAMBDA n : n \in DOMAIN G.nodes),
             DIRESPECT, ORPHANS, eo).sccs

----------------------------------------------------------------------------
(* Weak-link patching (graph.rs 179-191, 382-404) *)

\* the (n1, n2, e) triples; the Vec's order and repetitions are not kept
get_edges_between_regions(G, n1, n2, DIRESPECT) ==
    {<<a, b, e>> \in
        UNION {{<<a, b, e>> : e \in get_edges_between(G, a, b)} : <<a, b>> \in n1 \X n2} :
        is_outgoing(e, a, DIRESPECT) /\ is_incoming(e, b, DIRESPECT)}

RECURSIVE RemoveAll(_, _)
\* `for e in &redir { self.remove_edge(e); }`
RemoveAll(G, es) == IF es = <<>> THEN G ELSE RemoveAll(remove_edge(G, Head(es)), Tail(es))

RECURSIVE AddAll(_, _)
\* `for e in ... { self.add_edge(e); }`
AddAll(G, es) == IF es = <<>> THEN G ELSE AddAll(add_edge(G, Head(es)), Tail(es))

\* Redir that looks at each region and the one listed next only
RedirNextRegion(G, regions) ==
    UNION {{t[3] : t \in {x \in get_edges_between_regions(G, regions[i], regions[i + 1], FALSE) :
                             x[3].directed}}
           : i \in 1..(Len(regions) - 1)}

\* the hash set redir of patch_sccs: the directed edges between two listed regions
Redir(G, regions) ==
    UNION {UNION {{t[3] : t \in {x \in get_edges_between_regions(G, regions[i], regions[j], FALSE) :
                                    x[3].directed}}
                  : j \in (i + 1)..Len(regions)}
           : i \in 1..Len(regions)}

\* patch_sccs without the loop that removes the edges of redir
patch_sccs_no_remove(G, regions, DIRESPECT, eo) ==
    IF DIRESPECT
    THEN LET redir == Iter(Redir(G, regions), eo)
         IN  AddAll(G, [i \in DOMAIN redir |-> dedirect(redir[i])])
    ELSE G

\* Graph::patch_sccs with the closure that road::solve passes for its parameter
\* dedirect
patch_sccs(G, regions, DIRESPECT, eo) ==
    IF DIRESPECT
    THEN LET redir == Iter(Redir(G, regions), eo)
         IN  AddAll(RemoveAll(G, redir), [i \in DOMAIN redir |-> dedirect(redir[i])])
    ELSE G

----------------------------------------------------------------------------
(* Locating the vehicles: the locate! macro (plow.rs 270-289) *)

\* data::Location
LocNode(n) == [kind |-> "Node", n |-> n]

LocCoordinates(c) == [kind |-> "Coordinates", c |-> c]

\* Distance for (f64, f64): the squared Euclidean distance (data.rs 14-19)
distance(a, b) == (a[1] - b[1]) * (a[1] - b[1]) + (a[2] - b[2]) * (a[2] - b[2])

\* min_by_key over a sequence whose keys are ks: the first index of the least key;
\* ks not empty
MinByKey(ks) ==
    CHOOSE i \in DOMAIN ks :
        /\ \A j \in DOMAIN ks : ks[i] <= ks[j]
        /\ \A j \in 1..(i - 1) : ks[j] > ks[i]

\* one location: <<nid>>, or <<>> where the macro returns Err
locate1(G, l, no) ==
    IF l.kind = "Node"
    THEN IF l.n \in DOMAIN G.nodes /\ ~is_orphan(G, l.n) THEN <<l.n>> ELSE <<>>
    ELSE LET cand == SelectSeq(no, LAMBDA n : n \in DOMAIN G.nodes /\ ~is_orphan(G, n))
         IN  IF cand = <<>> THEN <<>>
             ELSE <<cand[MinByKey([i \in DOMAIN cand |->
                                     distance(l.c, G.nodes[cand[i]].coordinates)])]>>

\* locate!: Some(sns), or None where the macro returns Err
locate(G, locs, no) ==
    IF \E i \in DOMAIN locs : locate1(G, locs[i], no) = <<>>
    THEN None
    ELSE Some([i \in DOMAIN locs |-> locate1(G, locs[i], no)[1]])

----------------------------------------------------------------------------
(* Component pruning: the fix_sccs! macro (plow.rs 292-340) *)

\* Reachable that keeps every component
ReachableAll(sccs, sns) == UNION {sccs[i] : i \in DOMAIN sccs}

\* `for scc in sccs { if sns.any(|s| scc.contains(s)) { reachable.extend(scc) } }`
Reachable(sccs, sns) ==
    UNION {sccs[i] : i \in {k \in DOMAIN sccs : \E s \in Range(sns) : s \in sccs[k]}}

\* the pruning shared by both arms of the macro (plow.rs 320-337); the sort by
\* size only reorders the components, and Reachable does not read their order
PruneUnreachable(G, sns, eo, no) ==
    LET sccs == strongly_connected_components(G, FALSE, FALSE, eo, no)
    IN  IF Len(sccs) > 1
        THEN retain_nodes_edges(G, Reachable(sccs, sns))
        ELSE G

\* fix_sccs!(g, sns, v): the arm without dedirect, used by fly::solve
fix_sccs_fly(G, sns, eo, no) == PruneUnreachable(G, sns, eo, no)

\* fix_sccs!(g, sns, v, dedir) with the dedirect of road::solve
fix_sccs(G, sns, eo, no) ==
    LET sccs == strongly_connected_components(G, TRUE, FALSE, eo, no)
    IN  PruneUnreachable(patch_sccs(G, sccs, TRUE, eo), sns, eo, no)

----------------------------------------------------------------------------
(* The single-vehicle postman heuristic: heuristics::solve_pwrp             *)
(* (graph.rs 515-574).  The result is [kind |-> "Ok", sol], [kind |-> "Err",*)
(* es] or, where the code panics, [kind |-> "panic", msg].                  *)

\* find: the index of the first element of a sequence that passes the test, bs
\* being the outcomes of the test; 0 when none passes
FirstIndex(bs) ==
    IF \E i \in DOMAIN bs : bs[i]
    THEN CHOOSE i \in DOMAIN bs : bs[i] /\ \A j \in 1..(i - 1) : ~bs[j]
    ELSE 0

\* g.get_edges(u).iter().find(|e| e.is_outgoing(u) && alloc.contains(e)), as a sequence
\* of at most one edge
FindAllocated(G, u, allocated, DIRESPECT, eo) ==
    LET es == Iter(get_edges(G, u), eo)
        i  == FirstIndex([k \in DOMAIN es |->
                             is_outgoing(es[k], u, DIRESPECT) /\ contains(allocated, es[k])])
    IN  IF i = 0 THEN <<>> ELSE <<es[i]>>

\* sol_inject that appends the injected edges to the tour
sol_inject_at_end(st, inj, y) ==
    [sol   |-> st.sol \o inj,
     alloc |-> {a \in st.alloc : \A i \in DOMAIN inj : ~SameEdge(a, inj[i])}]

\* sol_inject that leaves alloc as it is
sol_inject_keep_alloc(st, inj, y) ==
    [sol   |-> SubSeq(st.sol, 1, y) \o inj \o SubSeq(st.sol, y + 1, Len(st.sol)),
     alloc |-> st.alloc]

\* sol_inject!: drop the injected edges from alloc, splice them into sol at y (0-based)
sol_inject(st, inj, y) ==
    [sol   |-> SubSeq(st.sol, 1, y) \o inj \o SubSeq(st.sol, y + 1, Len(st.sol)),
     alloc |-> {a \in st.alloc : \A i \in DOMAIN inj : ~SameEdge(a, inj[i])}]

\* the endpoints from which an allocated edge can be entered (graph.rs 546)
EntryNodes(allocated, DIRESPECT) ==
    UNION {IF ~DIRESPECT \/ ~e.directed THEN {e.p1, e.p2} ELSE {e.p1} : e \in allocated}

\* the IndexMap us: the last visit index (0-based) of a node of the walk
LastVisit(ns, u) == (CHOOSE i \in DOMAIN ns : ns[i] = u /\ \A j \in (i + 1)..Len(ns) : ns[j] # u) - 1

RECURSIVE FindReturn(_, _, _, _, _, _, _, _)
\* the find_map of graph.rs 550-552 over the bucket of v, es being what is left of it:
\* the first allocated outgoing edge with a path back to u, as <<[e, path]>>, or <<>>
FindReturn(G, es, v, u, allocated, DIRESPECT, eo, no) ==
    IF es = <<>> THEN <<>>
    ELSE LET e  == Head(es)
             pb == IF is_outgoing(e, v, DIRESPECT) /\ contains(allocated, e)
                   THEN pathfind(G, other(e, v), u, {}, DIRESPECT, eo, no)
                   ELSE None
         IN  IF IsNone(pb)
             THEN FindReturn(G, Tail(es), v, u, allocated, DIRESPECT, eo, no)
             ELSE <<[e |-> e, path |-> pb.v]>>

RECURSIVE Bridge(_, _, _, _, _, _, _)
\* the retry loop of "connecting to a distant isle" (graph.rs 548-564):
\* Some([inj, y]) or None
Bridge(G, ns, vs, allocated, DIRESPECT, eo, no) ==
    LET r == pathfind_regions(G, Range(ns), vs, {}, DIRESPECT, eo, no)
    IN  IF IsNone(r) THEN None
        ELSE LET u  == r.v.v
                 v  == r.v.u
                 fr == FindReturn(G, Iter(get_edges(G, v), eo), v, u, allocated,
                                  DIRESPECT, eo, no)
             IN  IF fr # <<>>
                 THEN Some([inj |-> r.v.path \o <<fr[1].e>> \o fr[1].path,
                            y   |-> LastVisit(ns, u)])
                 ELSE Bridge(G, ns, vs \ {v}, allocated, DIRESPECT, eo, no)

RECURSIVE PwrpLoop(_, _, _, _, _, _)
\* `while !alloc.is_empty()` (graph.rs 534-571); st is [sol, alloc]
PwrpLoop(G, sp, st, DIRESPECT, eo, no) ==
    IF st.alloc = {} THEN [kind |-> "Ok", sol |-> st.sol]
    ELSE LET ns == path_to_nodes(st.sol, sp)
             i  == FirstIndex([k \in DOMAIN ns |->
                                  FindAllocated(G, ns[k], st.alloc, DIRESPECT, eo) # <<>>])
         IN  IF i # 0
             THEN \* injecting a cycle
                  LET u == ns[i]
                      e == FindAllocated(G, u, st.alloc, DIRESPECT, eo)[1]
                      p == pathfind(G, other(e, u), u, {}, DIRESPECT, eo, no)
                  IN  IF IsNone(p) THEN [kind |-> "panic", msg |-> "it's a trap!"]
                      ELSE PwrpLoop(G, sp, sol_inject(st, <<e>> \o p.v, i - 1),
                                    DIRESPECT, eo, no)
             ELSE \* connecting to a distant isle
                  LET b == Bridge(G, ns, EntryNodes(st.alloc, DIRESPECT), st.alloc,
                                  DIRESPECT, eo, no)
                  IN  IF IsNone(b) THEN [kind |-> "Err", es |-> st.alloc]
                      ELSE PwrpLoop(G, sp, sol_inject(st, b.v.inj, b.v.y),
                                    DIRESPECT, eo, no)

solve_pwrp(G, sp, allocated, DIRESPECT, eo, no) ==
    PwrpLoop(G, sp, [sol |-> <<>>, alloc |-> allocated], DIRESPECT, eo, no)

----------------------------------------------------------------------------
(* The annealing driver: PlowSolver (plow.rs 53-237).  Vehicles are numbered *)
(* from 1, as are the positions of `order`.                                  *)

\* N64: N64::infinity() and the finite values, with their order
Infinity == <<1, 0>>

n64(v) == <<0, v>>

Lt(a, b) == a[1] < b[1] \/ (a[1] = b[1] /\ a[2] < b[2])

Le(a, b) == ~Lt(b, a)

Panic(msg) == [kind |-> "panic", msg |-> msg]

\* the closure `closest` of initial_allocation: the first vehicle nearest to c
closest(locs, c) == MinByKey([i \in DOMAIN locs |-> distance(c, locs[i])])

\* one pass of the loop with the counts ignored: the edge goes to the vehicle
\* closest to p1
AllocateToP1(G, locs, allocations, e) ==
    LET lv1 == closest(locs, G.nodes[e.p1].coordinates)
    IN  [allocations EXCEPT ![lv1] = insert(@, e)]

\* one pass of `for e in snowy { ... allocations[lv].insert(e); }`
AllocateOne(G, locs, allocations, e) ==
    LET lv1 == closest(locs, G.nodes[e.p1].coordinates)
        lv2 == closest(locs, G.nodes[e.p2].coordinates)
        lv  == IF lv1 = lv2 \/ Cardinality(allocations[lv2]) > Cardinality(allocations[lv1])
               THEN lv1 ELSE lv2
    IN  [allocations EXCEPT ![lv] = insert(@, e)]

RECURSIVE Allocate(_, _, _, _)
\* `for e in snowy { ... }`
Allocate(G, locs, allocations, es) ==
    IF es = <<>> THEN allocations
    ELSE Allocate(G, locs, AllocateOne(G, locs, allocations, Head(es)), Tail(es))

\* PlowSolver::initial_allocation, snowy being the edges in iteration order; with
\* no vehicle `closest` unwraps None on the first edge
initial_allocation(G, locs, snowy) ==
    IF snowy # <<>> /\ locs = <<>>
    THEN Panic("called Option::unwrap() on a None value")
    ELSE [kind |-> "Ok", v |-> Allocate(G, locs, [i \in DOMAIN locs |-> {}], snowy)]

RECURSIVE AllocTourFromAll(_, _, _, _)
\* AllocTour without the test `a != i`: the edge is removed from every allocation
AllocTourFromAll(allocs, i, tour, snowy) ==
    IF tour = <<>> THEN allocs
    ELSE LET e  == Head(tour)
             a1 == IF contains(snowy, e) /\ ~contains(allocs[i], e)
                   THEN [a \in DOMAIN allocs |-> remove(allocs[a], e)]
                   ELSE allocs
         IN  AllocTourFromAll(a1, i, Tail(tour), snowy)

RECURSIVE AllocTourNoRemove(_, _, _, _)
\* AllocTour without the inner loop: the edge is inserted and removed nowhere
AllocTourNoRemove(allocs, i, tour, snowy) ==
    IF tour = <<>> THEN allocs
    ELSE LET e  == Head(tour)
             a1 == IF contains(snowy, e) /\ ~contains(allocs[i], e)
                   THEN [allocs EXCEPT ![i] = insert(@, e)]
                   ELSE allocs
         IN  AllocTourNoRemove(a1, i, Tail(tour), snowy)

RECURSIVE AllocTour(_, _, _, _)
\* `for e in &sols[i] { if snowy(e) { if allocs[i].insert(e) { ... remove(e) } } }`
AllocTour(allocs, i, tour, snowy) ==
    IF tour = <<>> THEN allocs
    ELSE LET e  == Head(tour)
             a1 == IF contains(snowy, e) /\ ~contains(allocs[i], e)
                   THEN [a \in DOMAIN allocs |->
                            IF a = i THEN insert(allocs[a], e) ELSE remove(allocs[a], e)]
                   ELSE allocs
         IN  AllocTour(a1, i, Tail(tour), snowy)

RECURSIVE sol_to_alloc(_, _, _, _)
\* PlowSolver::sol_to_alloc
sol_to_alloc(ord, sols, allocs, snowy) ==
    IF ord = <<>> THEN allocs
    ELSE sol_to_alloc(Tail(ord), sols,
                      AllocTour(allocs, Head(ord), sols[Head(ord)], snowy), snowy)

\* cycle_cost_compute!(sol, alloc, dun)
cycle_cost_compute3(sol, al, dun, snowy, params) ==
    SumSeq([k \in DOMAIN sol |->
              sol[k].w * (IF contains(snowy, sol[k]) /\
                             (IF params.clearing = "All"
                              THEN ~contains(dun, sol[k])
                              ELSE contains(al, sol[k]))
                          THEN params.slowdown ELSE 1)])

\* cycle_cost_compute!(sol, alloc)
cycle_cost_compute2(sol, al, snowy, params) ==
    SumSeq([k \in DOMAIN sol |->
              sol[k].w * (IF contains(snowy, sol[k]) /\ contains(al, sol[k])
                          THEN params.slowdown ELSE 1)])

\* slice::swap
Swap(s, i, j) == [s EXCEPT ![i] = s[j], ![j] = s[i]]

\* minmax_by_key over `order` by tour length: <<>> for fewer than two elements,
\* else <<the first least element, the last greatest element>>
MinMax(ord, sols) ==
    IF Len(ord) < 2 THEN <<>>
    ELSE LET mn == CHOOSE k \in DOMAIN ord :
                       /\ \A l \in DOMAIN ord : Len(sols[ord[k]]) <= Len(sols[ord[l]])
                       /\ \A l \in 1..(k - 1) : Len(sols[ord[l]]) > Len(sols[ord[k]])
             mx == CHOOSE k \in DOMAIN ord :
                       /\ \A l \in DOMAIN ord : Len(sols[ord[k]]) >= Len(sols[ord[l]])
                       /\ \A l \in (k + 1)..Len(ord) : Len(sols[ord[l]]) < Len(sols[ord[k]])
         IN  <<ord[mn], ord[mx]>>

\* `match params.reorder { ... }` (plow.rs 118-127): the orders the step may
\* leave, the random draws ranging over all their values; with no vehicle
\* Swap2Random samples the empty range 0..0, and the result is the empty set
Reorders(ord, sols, reorder) ==
    CASE reorder = "No" -> {ord}
      [] reorder = "Swap2Random" -> {Swap(ord, i, j) : i \in DOMAIN ord, j \in DOMAIN ord}
      [] reorder = "Swap2MostLeast" ->
            LET mm == MinMax(ord, sols)
            IN  IF mm = <<>> THEN {ord} ELSE {Swap(ord, mm[1], mm[2])}
      [] reorder = "RandomReorder" -> SetToSeqs(Range(ord))

(* The recycle phase (plow.rs 175-201).  st is [sol, vycles]: sol_improv and *)
(* the node sequences of its tours.                                          *)

\* Vec::splice(a..b, []) followed by splice(c..c, mine), on 1-based sequences:
\* the elements a .. b-1 of s leave s
Cut(s, a, b) == SubSeq(s, 1, a - 1) \o SubSeq(s, b, Len(s))

Paste(s, c, mine) == SubSeq(s, 1, c - 1) \o mine \o SubSeq(s, c, Len(s))

\* Transplant that pastes the sub-cycle at the front of the tour of j
TransplantToFront(st, i, j, iu, ju, iv) ==
    [sol    |-> [st.sol EXCEPT ![i] = Cut(st.sol[i], iu, iv),
                               ![j] = Paste(st.sol[j], 1, SubSeq(st.sol[i], iu, iv - 1))],
     vycles |-> [st.vycles EXCEPT ![i] = Cut(st.vycles[i], iu, iv),
                                  ![j] = Paste(st.vycles[j], 1, SubSeq(st.vycles[i], iu, iv - 1))]]

\* "[i][iu..=iv] <=> [j][ju..=ju]": the four splices (plow.rs 190-193)
Transplant(st, i, j, iu, ju, iv) ==
    [sol    |-> [st.sol EXCEPT ![i] = Cut(st.sol[i], iu, iv),
                               ![j] = Paste(st.sol[j], ju, SubSeq(st.sol[i], iu, iv - 1))],
     vycles |-> [st.vycles EXCEPT ![i] = Cut(st.vycles[i], iu, iv),
                                  ![j] = Paste(st.vycles[j], ju, SubSeq(st.vycles[i], iu, iv - 1))]]

\* the (iu, ju, iv) at which the loops over iu, ju and iv stop: the least in
\* the order of the loops; <<>> when they run to their ends
FindCycle(vi, vj) ==
    LET C == {t \in (DOMAIN vi) \X (DOMAIN vj) \X (DOMAIN vi) :
                 vi[t[1]] = vj[t[2]] /\ t[3] > t[1] /\ vi[t[3]] = vi[t[1]]}
        Before(a, b) == \/ a[1] < b[1]
                        \/ a[1] = b[1] /\ a[2] < b[2]
                        \/ a[1] = b[1] /\ a[2] = b[2] /\ a[3] <= b[3]
    IN  IF C = {} THEN <<>> ELSE CHOOSE t \in C : \A x \in C : Before(t, x)

\* the body of `'nexc: for j in (i+1)..vs` for the positions a < b of `order`
RecyclePair(st, a, b, ord, costs) ==
    LET i == IF costs[ord[a]] > costs[ord[b]] THEN ord[a] ELSE ord[b]
        j == IF costs[ord[a]] > costs[ord[b]] THEN ord[b] ELSE ord[a]
        t == FindCycle(st.vycles[i], st.vycles[j])
    IN  IF t = <<>> THEN st ELSE Transplant(st, i, j, t[1], t[2], t[3])

RECURSIVE RecycleLoop(_, _, _, _, _)
\* `for i in 0..vs { for j in (i+1)..vs { ... } }` from the positions (a, b) on
RecycleLoop(st, a, b, ord, costs) ==
    IF a > Len(ord) THEN st
    ELSE IF b > Len(ord) THEN RecycleLoop(st, a + 1, a + 2, ord, costs)
    ELSE RecycleLoop(RecyclePair(st, a, b, ord, costs), a, b + 1, ord, costs)

\* the recycle phase: [sol: sol_improv, vycles]
recycle(sol_next, sps, ord, costs) ==
    RecycleLoop([sol    |-> sol_next,
                 vycles |-> [i \in DOMAIN sol_next |-> path_to_nodes(sol_next[i], sps[i])]],
                1, 2, ord, costs)

\* the greatest of the costs, 0 when there is none (cost_next_max, cost_improv_max)
MaxCost(costs) ==
    IF costs = <<>> THEN 0
    ELSE CHOOSE c \in Range(costs) \cup {0} : \A d \in Range(costs) \cup {0} : d <= c

----------------------------------------------------------------------------
(* Input graphs.  road::solve (plow.rs 452-464) adds every node of the      *)
(* road graph and then every road; an input graph is built the same way     *)
(* from a list of roads over the nodes 0 .. NumNodes-1.                     *)

\* common::RoadNode (plow.rs 244-259): the node's own id and its coordinates
RoadNode(id, coordinates) == [id |-> id, coordinates |-> coordinates]

\* the nodes of the input road graph: node i lies at (i, 0)
InputNodes == [i \in 1..NumNodes |-> RoadNode(i - 1, <<i - 1, 0>>)]

RECURSIVE AddNodes(_, _)
\* `for n in roads.nodes.nodes { g.graph = g.graph.add_node(n.into()) }`; the id
\* generator of plow_solver! numbers the nodes 0, 1, ... in the order of the list
AddNodes(G, ns) ==
    IF ns = <<>> THEN G ELSE AddNodes(add_node(G, Head(ns).id, Head(ns)), Tail(ns))

BuildGraph(roads) == AddAll(AddNodes(EmptyGraph, InputNodes), roads)

Absent == [absent |-> TRUE]

\* the road lists over the endpoint pairs `pairs`: each pair has no road or one road,
\* directed or not, with a weight of W; at most m roads in all
RoadLists(pairs, W, m) ==
    LET Attr == {[absent |-> FALSE, directed |-> d, w |-> w] : d \in BOOLEAN, w \in W}
        Fs   == {f \in [DOMAIN pairs -> {Absent} \cup Attr] :
                    Cardinality({i \in DOMAIN pairs : ~f[i].absent}) <= m}
        Road(f, i) == RoadEdge(pairs[i][1], pairs[i][2], NoDisc, f[i].directed, f[i].w)
    IN  {LET present == SelectSeq([i \in DOMAIN pairs |-> i], LAMBDA i : ~f[i].absent)
         IN  [k \in DOMAIN present |-> Road(f, present[k])] : f \in Fs}

\* the iteration orders of the edge sets of G, and of its node map
EdgeOrders(G) == SetToSeqs({Key(e) : e \in edges(G)})

NodeOrders(G) == SetToSeqs(DOMAIN G.nodes)

\* the same, the orphans left out: the order of the nodes that an algorithm
\* reads when it skips the orphans and follows edges
LiveOrders(G) == SetToSeqs({n \in DOMAIN G.nodes : ~is_orphan(G, n)})

\* the solver is not running
NoDriver ==
    /\ alloc = <<>>
    /\ solution = <<>>
    /\ order = <<>>
    /\ best = <<>>
    /\ iter = <<>>
    /\ next = <<>>

----------------------------------------------------------------------------
(* SpecPath: pathfind applied to bounded inputs *)

\* the largest weight of a road of an input graph
MaxWeight == 2

PathPairs == <<<<0, 1>>, <<1, 2>>, <<0, 2>>, <<1, 0>>>>

PathGraphs == {BuildGraph(r) : r \in RoadLists(PathPairs, 0..MaxWeight, MaxEdges)}

\* the weight function filters out no edge, or one edge
Blockings(G) == {{}} \cup {{Key(e)} : e \in edges(G)}

InitPath ==
    /\ pc = "start"
    /\ g \in PathGraphs
    /\ args \in
         {[op |-> "pathfind", n1 |-> a, n2 |-> b, blocked |-> bl, DIRESPECT |-> d] :
             a \in Nodes, b \in Nodes, bl \in Blockings(g), d \in BOOLEAN}
    /\ ret = None
    /\ NoDriver

Pathfind ==
    /\ pc = "start"
    /\ args.op = "pathfind"
    /\ \E eo \in EdgeOrders(g), no \in NodeOrders(g) :
          ret' = pathfind(g, args.n1, args.n2, args.blocked, args.DIRESPECT, eo, no)
    /\ pc' = "done"
    /\ UNCHANGED <<g, args, driver>>

NextPath == Pathfind

SpecPath == InitPath /\ [][NextPath]_vars

(* What a shortest path is, stated without the algorithm *)

SetMin(S) == CHOOSE x \in S : \A y \in S : x <= y

\* a step may leave node u along e
CanLeave(e, u, DIRESPECT) ==
    /\ e.p1 = u \/ e.p2 = u
    /\ (DIRESPECT /\ e.directed) => e.p1 = u

\* the edges a step from u may take
Steps(G, u, blocked, DIRESPECT) ==
    {e \in get_edges(G, u) : Key(e) \notin blocked /\ CanLeave(e, u, DIRESPECT)}

RECURSIVE IsWalk(_, _, _, _, _, _)
\* p leads from s to t over usable edges of G
IsWalk(G, p, s, t, blocked, DIRESPECT) ==
    IF p = <<>> THEN s = t
    ELSE /\ Head(p) \in Steps(G, s, blocked, DIRESPECT)
         /\ IsWalk(G, Tail(p), other(Head(p), s), t, blocked, DIRESPECT)

PathWeight(p) == SumSeq([i \in DOMAIN p |-> p[i].w])

RECURSIVE BellmanFord(_, _, _, _, _)
\* k rounds of relaxation of the distances d (a function on the nodes reached)
BellmanFord(G, d, blocked, DIRESPECT, k) ==
    IF k = 0 THEN d
    ELSE LET cand(v) ==
                 (IF v \in DOMAIN d THEN {d[v]} ELSE {}) \cup
                 UNION {{d[u] + e.w : e \in {x \in Steps(G, u, blocked, DIRESPECT) :
                                                  other(x, u) = v}} : u \in DOMAIN d}
             dom == {v \in DOMAIN G.nodes : cand(v) # {}}
         IN  BellmanFord(G, [v \in dom |-> SetMin(cand(v))], blocked, DIRESPECT, k - 1)

\* the least weight of a walk from a node of S to each node that has one
Distances(G, S, blocked, DIRESPECT) ==
    BellmanFord(G, [s \in S \cap DOMAIN G.nodes |-> 0], blocked, DIRESPECT,
                Cardinality(DOMAIN G.nodes))

\* C6: pathfind(s, t) returns None exactly when no walk leads from s to t over
\* edges that have a weight, directed edges being taken from p1 to p2 only under
\* Dir = true; otherwise it returns such a walk, connected from s to t, whose
\* weight is the least of all of them; it is the empty path when s = t.
C6_PathfindShortest ==
    (pc = "done" /\ args.op = "pathfind") =>
        LET dist == Distances(g, {args.n1}, args.blocked, args.DIRESPECT)
        IN  /\ IsNone(ret) <=> args.n2 \notin DOMAIN dist
            /\ ~IsNone(ret) =>
                  /\ IsWalk(g, ret.v, args.n1, args.n2, args.blocked, args.DIRESPECT)
                  /\ PathWeight(ret.v) = dist[args.n2]
            /\ args.n1 = args.n2 => ret = Some(<<>>)

\* pathfind returned a path of two edges although one edge leads from s to t,
\* at a greater weight
C6_Witness ==
    /\ pc = "done" /\ args.op = "pathfind"
    /\ ~IsNone(ret) /\ Len(ret.v) = 2
    /\ \E e \in Steps(g, args.n1, args.blocked, args.DIRESPECT) :
          other(e, args.n1) = args.n2 /\ e.w > PathWeight(ret.v)

----------------------------------------------------------------------------
(* SpecRegions: pathfind_regions applied to bounded inputs *)

InitRegions ==
    /\ pc = "start"
    /\ g \in PathGraphs
    /\ args \in
         {[op |-> "pathfind_regions", r1 |-> a, r2 |-> b, blocked |-> {}, DIRESPECT |-> d] :
             a \in SUBSET Nodes, b \in SUBSET Nodes, d \in BOOLEAN}
    /\ ret = None
    /\ NoDriver

PathfindRegions ==
    /\ pc = "start"
    /\ args.op = "pathfind_regions"
    /\ \E eo \in EdgeOrders(g), no \in NodeOrders(g) :
          ret' = pathfind_regions(g, args.r1, args.r2, args.blocked, args.DIRESPECT, eo, no)
    /\ pc' = "done"
    /\ UNCHANGED <<g, args, driver>>

NextRegions == PathfindRegions

SpecRegions == InitRegions /\ [][NextRegions]_vars

\* the result of pathfind_regions is None exactly when no node of T can be reached
\* from S (so when S or T is empty); otherwise it is a walk from a node of S to a
\* node of T whose weight is the least over S x T
RegionsShortest ==
    LET dist   == Distances(g, args.r1, args.blocked, args.DIRESPECT)
        reachT == args.r2 \cap DOMAIN dist
    IN  /\ IsNone(ret) <=> reachT = {}
        /\ ~IsNone(ret) =>
              /\ ret.v.v \in args.r1
              /\ ret.v.u \in args.r2
              /\ IsWalk(g, ret.v.path, ret.v.v, ret.v.u, args.blocked, args.DIRESPECT)
              /\ PathWeight(ret.v.path) = SetMin({dist[t] : t \in reachT})

\* C7 as stated: pathfind_regions(S, T) returns None exactly when S or T is empty
\* or no node of T is reachable from S; otherwise (s, t, path) with a valid path of
\* least weight over S x T, the empty path when S and T intersect.
C7_AsStated ==
    (pc = "done" /\ args.op = "pathfind_regions") =>
        /\ RegionsShortest
        /\ args.r1 \cap args.r2 # {} => (~IsNone(ret) /\ ret.v.path = <<>>)

\* C7, amended: as above, but when S and T intersect the path has weight 0, and
\* it is the empty path when no edge of the graph has weight 0.
C7_RegionsShortest ==
    (pc = "done" /\ args.op = "pathfind_regions") =>
        /\ RegionsShortest
        /\ args.r1 \cap args.r2 # {} =>
              /\ ~IsNone(ret) /\ PathWeight(ret.v.path) = 0
              /\ (\A e \in edges(g) : e.w > 0) => ret.v.path = <<>>

\* S and T intersect, and pathfind_regions returned a path that is not empty
C7_Witness ==
    /\ pc = "done" /\ args.op = "pathfind_regions"
    /\ args.r1 \cap args.r2 # {}
    /\ ~IsNone(ret) /\ ret.v.path # <<>>

----------------------------------------------------------------------------
(* SpecScc: strongly_connected_components applied to bounded inputs *)

SccPairs == <<<<0, 1>>, <<1, 2>>, <<2, 0>>, <<1, 0>>, <<2, 1>>, <<0, 2>>, <<2, 2>>>>

SccGraphs == {BuildGraph(r) : r \in RoadLists(SccPairs, {1}, MaxEdges)}

InitScc ==
    /\ pc = "start"
    /\ g \in SccGraphs
    /\ args \in {[op |-> "strongly_connected_components", DIRESPECT |-> d, ORPHANS |-> o] :
                    d \in BOOLEAN, o \in BOOLEAN}
    /\ ret = None
    /\ NoDriver

Sccs ==
    /\ pc = "start"
    /\ args.op = "strongly_connected_components"
    /\ \E eo \in EdgeOrders(g), no \in NodeOrders(g) :
          ret' = strongly_connected_components(g, args.DIRESPECT, args.ORPHANS, eo, no)
    /\ pc' = "done"
    /\ UNCHANGED <<g, args, driver>>

NextScc == Sccs

SpecScc == InitScc /\ [][NextScc]_vars

\* the nodes a walk from u reaches
ReachFrom(G, u, DIRESPECT) == DOMAIN Distances(G, {u}, {}, DIRESPECT)

\* the classes of mutual reachability among the nodes of N
ReachClasses(G, N, DIRESPECT) ==
    {{v \in N : v \in ReachFrom(G, u, DIRESPECT) /\ u \in ReachFrom(G, v, DIRESPECT)} :
        u \in N}

\* C8: the components returned are the classes of mutual reachability (directed
\* edges taken from p1 to p2 only when Dir = true); a node with no incident edge
\* is a singleton component exactly when Orphans = true; no component is empty and
\* none is returned twice.
C8_SccsAreClasses ==
    (pc = "done" /\ args.op = "strongly_connected_components") =>
        LET N == {n \in DOMAIN g.nodes : args.ORPHANS \/ get_edges(g, n) # {}}
        IN  /\ Range(ret) = ReachClasses(g, N, args.DIRESPECT)
            /\ \A n \in DOMAIN g.nodes :
                  get_edges(g, n) = {} => (({n} \in Range(ret)) <=> args.ORPHANS)
            /\ {} \notin Range(ret)
            /\ \A i, j \in DOMAIN ret : ret[i] = ret[j] => i = j

\* under Dir = true a component of two nodes was returned next to another one
\* that a directed edge links to it
C8_Witness ==
    /\ pc = "done" /\ args.op = "strongly_connected_components"
    /\ args.DIRESPECT
    /\ \E i, j \in DOMAIN ret :
          /\ i # j /\ Cardinality(ret[i]) = 2
          /\ \E e \in edges(g) : e.directed /\ e.p1 \in ret[i] /\ e.p2 \in ret[j]

----------------------------------------------------------------------------
(* SpecPwrp: solve_pwrp applied to bounded inputs *)

PwrpPairs == <<<<0, 1>>, <<1, 2>>, <<2, 0>>, <<1, 0>>, <<2, 2>>>>

PwrpGraphs == {BuildGraph(r) : r \in RoadLists(PwrpPairs, {1}, MaxEdges)}

\* the sets of edges a caller may allocate
Allocations(G) == SUBSET edges(G)

InitPwrp ==
    /\ pc = "start"
    /\ g \in PwrpGraphs
    /\ args \in {[op |-> "solve_pwrp", sp |-> n, alloc |-> a, DIRESPECT |-> d] :
                    n \in Nodes, a \in Allocations(g), d \in BOOLEAN}
    /\ ret = None
    /\ NoDriver

SolvePwrp ==
    /\ pc = "start"
    /\ args.op = "solve_pwrp"
    /\ \E eo \in EdgeOrders(g), no \in NodeOrders(g) :
          ret' = solve_pwrp(g, args.sp, args.alloc, args.DIRESPECT, eo, no)
    /\ pc' = "done"
    /\ UNCHANGED <<g, args, driver>>

NextPwrp == SolvePwrp

SpecPwrp == InitPwrp /\ [][NextPwrp]_vars

\* tour is a closed walk of G from sp that traverses every edge of A
Covers(tour, A) == \A a \in A : \E i \in DOMAIN tour : SameEdge(tour[i], a)

ClosedWalk(G, tour, sp, DIRESPECT) == IsWalk(G, tour, sp, sp, {}, DIRESPECT)

\* C4: when solve_pwrp returns Ok(walk), the walk is closed, starts and ends at
\* sp, each of its edges leaves the node the walk stands on (a directed edge from
\* p1 only under Dir = true), and it contains every edge of alloc; for an empty
\* alloc it is the empty walk.
C4_PwrpTour ==
    (pc = "done" /\ args.op = "solve_pwrp" /\ ret.kind = "Ok") =>
        /\ ClosedWalk(g, ret.sol, args.sp, args.DIRESPECT)
        /\ Covers(ret.sol, args.alloc)
        /\ args.alloc = {} => ret.sol = <<>>

\* under Dir = true solve_pwrp returned a tour of two allocated edges or more that
\* also runs over an edge that was not allocated
C4_Witness ==
    /\ pc = "done" /\ args.op = "solve_pwrp" /\ ret.kind = "Ok"
    /\ args.DIRESPECT
    /\ Cardinality(args.alloc) >= 2
    /\ \E i \in DOMAIN ret.sol : ~contains(args.alloc, ret.sol[i])

\* a closed walk from sp can traverse the allocated edge a
Feasible(G, sp, a, DIRESPECT) ==
    \E e \in edges(G) : \E u \in {e.p1, e.p2} :
        /\ SameEdge(e, a)
        /\ CanLeave(e, u, DIRESPECT)
        /\ u \in ReachFrom(G, sp, DIRESPECT)
        /\ sp \in ReachFrom(G, other(e, u), DIRESPECT)

\* C5: solve_pwrp always returns a value: the failure value, which carries the
\* allocated edges that remain, whenever an allocated edge cannot be reached from
\* sp or the tour cannot return to sp; it never aborts the program.
C5_AlwaysReturns ==
    (pc = "done" /\ args.op = "solve_pwrp") =>
        /\ ret.kind \in {"Ok", "Err"}
        /\ (\E a \in args.alloc : ~Feasible(g, args.sp, a, args.DIRESPECT)) =>
              (ret.kind = "Err" /\ ret.es # {} /\ ret.es \subseteq args.alloc)

----------------------------------------------------------------------------
(* SpecFix: the vehicles are located and fix_sccs is applied, then applied   *)
(* once more to its own result                                               *)

\* a run serves at most MaxVehicles vehicles
MaxVehicles == 2

\* where a vehicle may be said to start: at a node, or at the point (1, 1)
Locations == {LocNode(n) : n \in Nodes} \cup {LocCoordinates(<<1, 1>>)}

VehicleLists == UNION {[1..k -> Locations] : k \in 0..MaxVehicles}

FixRoads == RoadLists(PwrpPairs, {1}, MaxEdges)

InitFix ==
    /\ pc = "start"
    /\ args \in {[op |-> "fix_sccs", roads |-> r, vehicles |-> v, sns |-> <<>>] :
                    r \in FixRoads, v \in VehicleLists}
    /\ g = BuildGraph(args.roads)
    /\ ret = None
    /\ NoDriver

\* let sns = locate!(vehicles, g, "snow plows")
Locate ==
    /\ pc = "start"
    /\ \E no \in NodeOrders(g) :
          LET r == locate(g, args.vehicles, no)
          IN  IF IsNone(r)
              THEN pc' = "error" /\ args' = args
              ELSE pc' = "located" /\ args' = [args EXCEPT !.sns = r.v]
    /\ UNCHANGED <<g, ret, driver>>

\* fix_sccs!(g, sns, "snow plows", dedirect)
FixSccs ==
    /\ pc = "located"
    /\ \E eo \in EdgeOrders(g), no \in LiveOrders(g) : g' = fix_sccs(g, args.sns, eo, no)
    /\ pc' = "fixed"
    /\ UNCHANGED <<args, ret, driver>>

\* fix_sccs! applied to the graph it has produced, with the same starts
FixSccsAgain ==
    /\ pc = "fixed"
    /\ args.op = "fix_sccs"
    /\ \E eo \in EdgeOrders(g), no \in LiveOrders(g) : g' = fix_sccs(g, args.sns, eo, no)
    /\ pc' = "refixed"
    /\ UNCHANGED <<args, ret, driver>>

NextFix == Locate \/ FixSccs \/ FixSccsAgain

SpecFix == InitFix /\ [][NextFix]_vars

\* the nodes of G that have an incident edge
NonOrphans(G) == {n \in DOMAIN G.nodes : get_edges(G, n) # {}}

\* the nodes joined to u when the directions are ignored
Component(G, u) == ReachFrom(G, u, FALSE)

SameGraph(G, H) ==
    /\ DOMAIN G.nodes = DOMAIN H.nodes
    /\ \A n \in DOMAIN G.nodes : get_edges(G, n) = get_edges(H, n)

\* C10: fix_sccs is idempotent: applied with the same vehicle starts to the graph
\* it has produced, it leaves the node set, the edges at every node and the
\* directed flag of every edge as they are.
C10_FixSccsIdempotent == [][(pc = "fixed" /\ pc' = "refixed") => SameGraph(g, g')]_vars

\* fix_sccs was applied a second time to a graph that its first application had
\* both patched and pruned
C10_Witness ==
    /\ pc = "refixed"
    /\ \E n \in DOMAIN g.nodes :
          get_edges(g, n) = {} /\ get_edges(BuildGraph(args.roads), n) # {}
    /\ \E e \in edges(g) : \E e0 \in edges(BuildGraph(args.roads)) :
          SameEdge(e, e0) /\ e0.directed /\ ~e.directed

----------------------------------------------------------------------------
(* SpecSolve: road::solve (plow.rs 451-485) on bounded inputs: the vehicles  *)
(* are located, fix_sccs prunes the graph, the snowy edges are read and      *)
(* PlowSolver::solve runs its iterations                                     *)

\* the greatest main_iterations of a run
MaxIter == 2

\* ft_iterations of every run
FtIterations == 2

\* slowdown of every run
Slowdown == 2

\* the road graph of a run holds at most MaxRoads roads
MaxRoads == 2

SolvePairs == <<<<0, 1>>, <<1, 0>>, <<1, 2>>, <<2, 2>>>>

\* the length of a road of a run: the road between the nodes 1 and 2 is the long one
SolveLength(e) == IF e.p1 = 1 /\ e.p2 = 2 THEN 3 ELSE 1

SolveRoads ==
    {[k \in DOMAIN r |-> [r[k] EXCEPT !.w = SolveLength(r[k])]] :
        r \in RoadLists(SolvePairs, {1}, MaxRoads)}

SolveVehicleLists == UNION {[1..k -> {LocNode(n) : n \in Nodes}] : k \in 0..MaxVehicles}

\* meta::Parameters; realloc is never read by the solver, the temperature is
\* starting_temperature * cooling_factor^cooled
ParameterSets ==
    {[recycle |-> rc, clearing |-> cl, reorder |-> ro,
      annealing |-> [main_iterations |-> mi, ft_iterations |-> FtIterations],
      slowdown |-> Slowdown, weight_total |-> 1, weight_max |-> 1] :
        rc \in {"No", "ExpensiveToCheap"},
        cl \in {"OnlyAllocated", "All"},
        ro \in {"No", "Swap2Random", "RandomReorder", "Swap2MostLeast"},
        mi \in 1..MaxIter}

InitSolve ==
    /\ pc = "start"
    /\ args \in {[op |-> "road", roads |-> r, vehicles |-> v, sns |-> <<>>, snowy |-> {},
                   params |-> p, DIRESPECT |-> TRUE] :
                    r \in SolveRoads, v \in SolveVehicleLists, p \in ParameterSets}
    /\ g = BuildGraph(args.roads)
    /\ ret = None
    /\ NoDriver

\* the snowy edges are read (plow.rs 468-478) and solve starts (plow.rs 94-104)
Start ==
    /\ pc = "fixed"
    /\ args.op = "road"
    /\ \E snowy \in SUBSET edges(g), eo \in EdgeOrders(g) :
          \E ia \in {initial_allocation(
                         g, [i \in DOMAIN args.sns |-> g.nodes[args.sns[i]].coordinates],
                         Iter(snowy, eo))} :
              /\ args' = [args EXCEPT !.snowy = snowy]
              /\ IF ia.kind = "panic"
                 THEN /\ pc' = "panic"
                      /\ ret' = ia
                      /\ UNCHANGED driver
                 ELSE /\ pc' = IF args.params.annealing.main_iterations = 0
                               THEN "done" ELSE "reorder"
                      /\ ret' = ret
                      /\ alloc' = ia.v
                      /\ solution' = [i \in DOMAIN args.sns |-> <<>>]
                      /\ order' = [i \in DOMAIN args.sns |-> i]
                      /\ best' = [value |-> Infinity, max |-> Infinity]
                      /\ iter' = [mi |-> 0, ii |-> 0, cooled |-> 0]
                      /\ next' = <<>>
    /\ UNCHANGED g

\* "Shuffle evaluation order" and the fresh candidate (plow.rs 118-135)
Reorder ==
    /\ pc = "reorder"
    /\ LET R  == Reorders(order, solution, args.params.reorder)
           vs == Len(order)
       IN  IF R = {}
           THEN /\ pc' = "panic"
                /\ ret' = Panic("cannot sample empty range")
                /\ UNCHANGED driver
           ELSE /\ \E o \in R : order' = o
                /\ next' = [k |-> 1, sol |-> [i \in 1..vs |-> <<>>],
                            costs |-> [i \in 1..vs |-> 0],
                            all |-> 0, max |-> 0, dun |-> {}, value |-> 0]
                /\ pc' = "tours"
                /\ UNCHANGED <<ret, alloc, solution, best, iter>>
    /\ UNCHANGED <<g, args>>

\* the edges of alloc[i] that are not yet dun (plow.rs 139)
Pending(al, dun) == {e \in al : ~contains(dun, e)}

\* the arms of the match on the result r of solve_pwrp for vehicle order[k]
\* (plow.rs 140-155)
TourDone(r) ==
    IF r.kind = "Ok"
    THEN \E cost \in {cycle_cost_compute3(r.sol, alloc[order[next.k]], next.dun,
                                            args.snowy, args.params)} :
           /\ next' = [k     |-> next.k + 1,
                       sol   |-> [next.sol EXCEPT ![order[next.k]] = r.sol],
                       costs |-> [next.costs EXCEPT ![order[next.k]] = cost],
                       all   |-> next.all + cost,
                       max   |-> IF cost > next.max THEN cost ELSE next.max,
                       dun   |-> IF args.params.clearing = "All"
                                 THEN next.dun \cup
                                      {e \in Range(r.sol) : ~contains(next.dun, e)}
                                 ELSE next.dun,
                       value |-> 0]
           /\ pc' = "tours"
           /\ ret' = ret
    ELSE /\ pc' = "panic"
         /\ ret' = IF r.kind = "Err" THEN Panic("Can't reach everywhere") ELSE r
         /\ next' = next

\* one pass of `for i in &order`: the tour of vehicle order[k] (plow.rs 136-156)
BuildTour ==
    /\ pc = "tours"
    /\ next.k <= Len(order)
    /\ \E eo \in EdgeOrders(g), no \in LiveOrders(g) :
          \E r \in {solve_pwrp(g, args.sns[order[next.k]],
                                Pending(alloc[order[next.k]], next.dun),
                                args.DIRESPECT, eo, no)} :
             TourDone(r)
    /\ UNCHANGED <<g, args, alloc, solution, order, best, iter>>

\* the acceptance test without the comparison of the maxima: a value that is
\* no worse is accepted
AcceptedNoWorse(value, max, b) == Le(n64(value), b.value)

\* value_next accepted by the tour phase
Accepted(value, max, b) ==
    Lt(n64(value), b.value) \/ (Le(n64(value), b.value) /\ Lt(n64(max), b.max))

\* "Evaluate" (plow.rs 158-173)
Evaluate ==
    /\ pc = "tours"
    /\ next.k > Len(order)
    /\ LET value_next == args.params.weight_total * next.all
                          + args.params.weight_max * next.max
       IN  /\ next' = [next EXCEPT !.value = value_next]
           /\ IF Accepted(value_next, next.max, best)
              THEN /\ solution' = next.sol
                   /\ best' = [value |-> n64(value_next), max |-> n64(next.max)]
                   /\ alloc' = IF args.params.clearing = "All"
                               THEN sol_to_alloc(order, next.sol, alloc, args.snowy)
                               ELSE alloc
              ELSE UNCHANGED <<solution, best, alloc>>
    /\ pc' = "improve"
    /\ UNCHANGED <<g, args, ret, order, iter>>

\* "Update the temperature" (plow.rs 229-234)
Cooled(it, params) ==
    IF it.ii + 1 >= params.annealing.ft_iterations
    THEN [it EXCEPT !.ii = 0, !.cooled = @ + 1, !.mi = @ + 1]
    ELSE [it EXCEPT !.ii = @ + 1, !.mi = @ + 1]

\* the objective of the improved tours computed from their own costs
value_improv_recomputed(params, cost_next_all, cost_next_max, cost_improv_all, cost_improv_max) ==
    params.weight_total * cost_improv_all + params.weight_max * cost_improv_max

\* let value_improv = params.weight_total*cost_next_all + params.weight_max*cost_next_max
\* (plow.rs 217): the costs of the improved tours are not read
value_improv(params, cost_next_all, cost_next_max, cost_improv_all, cost_improv_max) ==
    params.weight_total * cost_next_all + params.weight_max * cost_next_max

\* "Try to improve" (plow.rs 175-227), the update of the temperature and the end
\* of the iteration; draw is the outcome of `rng.gen_range(0.0..1.0) < exp(..)`
Improve ==
    /\ pc = "improve"
    /\ IF args.params.recycle = "ExpensiveToCheap"
       THEN \E sol_improv \in {recycle(next.sol, args.sns, order, next.costs).sol} :
            \E costs_improv \in
                 {[i \in DOMAIN sol_improv |->
                      cycle_cost_compute2(sol_improv[i], alloc[i],
                                          args.snowy, args.params)]} :
            \E cost_improv_max \in {MaxCost(costs_improv)} :
            \E v_improv \in {value_improv(args.params, next.all, next.max,
                                           SumSeq(costs_improv), cost_improv_max)} :
            \E draw \in BOOLEAN :
                  IF \/ Accepted(v_improv, cost_improv_max, best)
                     \/ (v_improv < next.value /\ draw)
                  THEN /\ solution' = sol_improv
                       /\ best' = [value |-> n64(v_improv), max |-> n64(cost_improv_max)]
                       /\ alloc' = sol_to_alloc(order, sol_improv, alloc, args.snowy)
                  ELSE UNCHANGED <<solution, best, alloc>>
       ELSE UNCHANGED <<solution, best, alloc>>
    /\ iter' = Cooled(iter, args.params)
    /\ IF iter'.mi >= args.params.annealing.main_iterations
       THEN pc' = "done" /\ ret' = [kind |-> "Ok", solution |-> solution']
       ELSE pc' = "reorder" /\ ret' = ret
    /\ UNCHANGED <<g, args, order, next>>

NextSolve == Locate \/ FixSccs \/ Start \/ Reorder \/ BuildTour \/ Evaluate \/ Improve

SpecSolve == InitSolve /\ [][NextSolve]_vars

\* C1: whenever solve returns (main_iterations >= 1, any clearing, reorder and
\* recycle setting), every snowy edge occurs at least once in the union of the
\* tours returned.
C1_EverySnowyEdgeCovered ==
    (pc = "done" /\ args.op = "road") =>
        \A e \in args.snowy :
            \E i \in DOMAIN ret.solution : contains(Range(ret.solution[i]), e)

\* solve returned after its second iteration with two vehicles that both have a
\* tour, two snowy edges, recycling and Clearing::All
C1_Witness ==
    /\ pc = "done" /\ args.op = "road"
    /\ iter.mi = 2
    /\ args.params.recycle = "ExpensiveToCheap" /\ args.params.clearing = "All"
    /\ Cardinality(args.snowy) = 2
    /\ Len(ret.solution) = 2 /\ ret.solution[1] # <<>> /\ ret.solution[2] # <<>>

\* C2: every tour that solve returns, walked from the start node of its vehicle,
\* is a closed walk: each edge has the node the walk stands on as an endpoint, the
\* walk ends at the start node and, Dir being true, no directed edge is taken from
\* p2 to p1; so for the tours of solve_pwrp and for those the recycle phase changed.
C2_ToursAreClosedWalks ==
    (pc = "done" /\ args.op = "road") =>
        \A i \in DOMAIN ret.solution :
            ClosedWalk(g, ret.solution[i], args.sns[i], args.DIRESPECT)

\* solve returned after one iteration the tours that the recycle phase made of the
\* tours of solve_pwrp: a sub-cycle went into the middle of a tour that solve_pwrp
\* had left non-empty
C2_Witness ==
    /\ pc = "done" /\ args.op = "road"
    /\ iter.mi = 1
    /\ args.params.recycle = "ExpensiveToCheap"
    /\ \E i \in DOMAIN ret.solution :
          /\ next.sol[i] # <<>>
          /\ Len(ret.solution[i]) > Len(next.sol[i])
          /\ ret.solution[i][1] = next.sol[i][1]

\* C3: after fix_sccs, with any number of vehicles located on non-orphan nodes and
\* any snowy set taken from the edges of the pruned graph, every solve_pwrp call of
\* the driver succeeds: neither "it's a trap!" nor "Can't reach everywhere" aborts
\* the run.
C3_NoAbort ==
    ~(pc = "panic" /\ ret.msg \in {"it's a trap!", "Can't reach everywhere"})

----------------------------------------------------------------------------
(* SpecEdge: the identity of the edges of the three specialisations.  An    *)
(* edge of fly is [p1, p2, d, w], of road [p1, p2, d, directed, w], of      *)
(* sidewalk [p1, p2, d, side, w]; a hash is the tuple the impl of Hash      *)
(* feeds to the hasher.                                                     *)

\* sidewalk::SidewalkSide
SidewalkSide == {"Wroom", "WroomOneWay", "Left", "Right"}

\* PartialEq for fly::RoadEdge
fly_eq(a, b) == a.p1 = b.p1 /\ a.p2 = b.p2 /\ a.d = b.d

\* Hash for fly::RoadEdge
fly_hash(e) == <<e.p1, e.p2, e.d>>

\* PartialEq for sidewalk::RoadEdge
sidewalk_eq(a, b) == a.p1 = b.p1 /\ a.p2 = b.p2 /\ a.d = b.d /\ a.side = b.side

\* Hash for sidewalk::RoadEdge
sidewalk_hash(e) == <<e.p1, e.p2, e.d, e.side>>

\* the dedirect closure of sidewalk::solve: RoadEdge { side: SidewalkSide::Wroom, ..e }
sidewalk_dedirect(e) == [e EXCEPT !.side = "Wroom"]

\* Edge::directed of the specialisation kind
directed(kind, e) ==
    CASE kind = "fly"      -> FALSE
      [] kind = "road"     -> e.directed
      [] kind = "sidewalk" -> e.side = "WroomOneWay"

edge_eq(kind, a, b) ==
    CASE kind = "fly"      -> fly_eq(a, b)
      [] kind = "road"     -> SameEdge(a, b)
      [] kind = "sidewalk" -> sidewalk_eq(a, b)

edge_hash(kind, e) ==
    CASE kind = "fly"      -> fly_hash(e)
      [] kind = "road"     -> Key(e)
      [] kind = "sidewalk" -> sidewalk_hash(e)

\* the closure that the specialisation passes to fix_sccs!
edge_dedirect(kind, e) ==
    CASE kind = "road"     -> dedirect(e)
      [] kind = "sidewalk" -> sidewalk_dedirect(e)

\* the edges of a specialisation over two nodes, two discriminators, two lengths
EdgeValues(kind) ==
    LET Base == [p1 : 0..1, p2 : 0..1, d : {NoDisc, 0}, w : 1..MaxWeight]
    IN  CASE kind = "fly"      -> Base
          [] kind = "road"     ->
               {RoadEdge(x.p1, x.p2, x.d, dr, x.w) : x \in Base, dr \in BOOLEAN}
          [] kind = "sidewalk" ->
               {[p1 |-> x.p1, p2 |-> x.p2, d |-> x.d, side |-> sd, w |-> x.w] :
                   x \in Base, sd \in SidewalkSide}

InitEdge ==
    /\ pc = "start"
    /\ g = EmptyGraph
    /\ args \in UNION {{[op |-> "edge", kind |-> k, a |-> x, b |-> y] :
                          x \in EdgeValues(k), y \in EdgeValues(k)} :
                       k \in {"fly", "road", "sidewalk"}}
    /\ ret = None
    /\ NoDriver

\* a == b, and the hashes of both
EdgeCompare ==
    /\ pc = "start"
    /\ args.op = "edge"
    /\ ret' = [eq |-> edge_eq(args.kind, args.a, args.b),
               ha |-> edge_hash(args.kind, args.a),
               hb |-> edge_hash(args.kind, args.b)]
    /\ pc' = "compared"
    /\ UNCHANGED <<g, args, driver>>

\* dedirect(a) as patch_sccs calls it, compared with a; fly passes no dedirect
EdgeDedirect ==
    /\ pc = "compared"
    /\ args.kind # "fly"
    /\ \E e \in {edge_dedirect(args.kind, args.a)} :
          ret' = [e  |-> e,
                  eq |-> edge_eq(args.kind, args.a, e),
                  ha |-> edge_hash(args.kind, args.a),
                  hb |-> edge_hash(args.kind, e)]
    /\ pc' = "dedirected"
    /\ UNCHANGED <<g, args, driver>>

NextEdge == EdgeCompare \/ EdgeDedirect

SpecEdge == InitEdge /\ [][NextEdge]_vars

SameEnds(a, b) == a.p1 = b.p1 /\ a.p2 = b.p2 /\ a.d = b.d

\* a and b differ in their weight alone
OnlyWeightDiffers(kind, a, b) == a # b /\ [a EXCEPT !.w = b.w] = b

\* a and b differ in their directedness alone: the flag of road, the two road
\* sides of sidewalk
OnlyDirectionDiffers(kind, a, b) ==
    /\ directed(kind, a) # directed(kind, b)
    /\ CASE kind = "fly"      -> FALSE
         [] kind = "road"     -> [a EXCEPT !.directed = b.directed] = b
         [] kind = "sidewalk" -> /\ [a EXCEPT !.side = b.side] = b
                                 /\ {a.side, b.side} = {"Wroom", "WroomOneWay"}

\* C11 as stated: in fly, road and sidewalk two edges that differ only in weight or
\* only in directedness are equal and hash alike, and the edge that dedirect
\* returns is equal to the edge it replaces.
C11_AsStated ==
    /\ (/\ pc = "compared"
        /\ \/ OnlyWeightDiffers(args.kind, args.a, args.b)
           \/ OnlyDirectionDiffers(args.kind, args.a, args.b))
          => (ret.eq /\ ret.ha = ret.hb)
    /\ pc = "dedirected" => (ret.eq /\ ret.ha = ret.hb)

\* C11, amended: in all three specialisations equality and hash read the endpoints,
\* the discriminator and (sidewalk) the side and nothing else, so edges that differ
\* only in weight are equal and hash alike.  In road the directed flag is no part
\* of the identity and dedirect(e) equals e.  In sidewalk the directedness is the
\* side WroomOneWay, a part of the identity: dedirect(e) equals e exactly when e is
\* a Wroom edge already, and replaces a one-way edge by an edge of another identity.
C11_IdentityFields ==
    /\ pc = "compared" =>
          /\ ret.eq = (SameEnds(args.a, args.b)
                         /\ (args.kind = "sidewalk" => args.a.side = args.b.side))
          /\ ret.eq = (ret.ha = ret.hb)
          /\ (OnlyWeightDiffers(args.kind, args.a, args.b) => ret.eq)
          /\ ((args.kind = "road" /\ OnlyDirectionDiffers(args.kind, args.a, args.b))
                 => ret.eq)
    /\ pc = "dedirected" =>
          /\ ~directed(args.kind, ret.e)
          /\ ret.eq = (ret.ha = ret.hb)
          /\ (args.kind = "road" => ret.eq)
          /\ (args.kind = "sidewalk" => (ret.eq = (args.a.side = "Wroom")))

\* a one-way edge of sidewalk has been dedirected and compared with the result,
\* which is another edge
C11_Witness ==
    /\ pc = "dedirected" /\ args.op = "edge"
    /\ args.kind = "sidewalk" /\ args.a.side = "WroomOneWay"
    /\ ret.e.side = "Wroom" /\ ~ret.eq

----------------------------------------------------------------------------
(* SpecGraph: the mutations of Graph applied, in any order, from the empty  *)
(* graph.  args is the last call and ret what it returned.                  *)

GraphPairs == <<<<0, 1>>, <<1, 0>>, <<1, 2>>, <<2, 2>>>>

\* the edges handed to add_edge and remove_edge
GraphEdges ==
    {RoadEdge(GraphPairs[i][1], GraphPairs[i][2], NoDisc, dr, 1) :
        i \in DOMAIN GraphPairs, dr \in BOOLEAN}

\* the lists of at most three disjoint regions handed to patch_sccs
RegionLists ==
    LET Sets == (SUBSET Nodes) \ {{}}
    IN  {<<>>} \cup {<<a>> : a \in Sets}
        \cup {<<a, b>> : <<a, b>> \in {x \in Sets \X Sets : x[1] \cap x[2] = {}}}
        \cup {<<{x[1]}, {x[2]}, {x[3]}>> :
                 x \in {y \in Nodes \X Nodes \X Nodes : Cardinality({y[1], y[2], y[3]}) = 3}}

InitGraph ==
    /\ pc = "graph"
    /\ g = EmptyGraph
    /\ args = [op |-> "default"]
    /\ ret = None
    /\ NoDriver

AddNode ==
    /\ pc = "graph"
    /\ \E id \in Nodes :
          /\ g' = add_node(g, id, RoadNode(id, <<id, 0>>))
          /\ args' = [op |-> "add_node", id |-> id]
          /\ ret' = get_node(g, id)
    /\ UNCHANGED <<pc, driver>>

\* add_edge; the graphs of the model hold MaxEdges edges at most
AddEdge ==
    /\ pc = "graph"
    /\ \E e \in GraphEdges :
          /\ Cardinality(edges(add_edge(g, e))) <= MaxEdges
          /\ g' = add_edge(g, e)
          /\ args' = [op |-> "add_edge", e |-> e]
          /\ ret' = has_ends(g, e)
    /\ UNCHANGED <<pc, driver>>

RemoveEdge ==
    /\ pc = "graph"
    /\ \E e \in GraphEdges :
          /\ g' = remove_edge(g, e)
          /\ args' = [op |-> "remove_edge", e |-> e]
          /\ ret' = has_ends(g, e)
    /\ UNCHANGED <<pc, driver>>

RetainNodes ==
    /\ pc = "graph"
    /\ \E f \in SUBSET Nodes :
          /\ g' = retain_nodes(g, f)
          /\ args' = [op |-> "retain_nodes", f |-> f]
          /\ ret' = None
    /\ UNCHANGED <<pc, driver>>

RetainNodesEdges ==
    /\ pc = "graph"
    /\ \E f \in SUBSET Nodes :
          /\ g' = retain_nodes_edges(g, f)
          /\ args' = [op |-> "retain_nodes_edges", f |-> f]
          /\ ret' = None
    /\ UNCHANGED <<pc, driver>>

PatchSccs ==
    /\ pc = "graph"
    /\ \E regions \in RegionLists, d \in BOOLEAN, eo \in EdgeOrders(g) :
          /\ g' = patch_sccs(g, regions, d, eo)
          /\ args' = [op |-> "patch_sccs", regions |-> regions, DIRESPECT |-> d]
          /\ ret' = None
    /\ UNCHANGED <<pc, driver>>

NextGraph ==
    AddNode \/ AddEdge \/ RemoveEdge \/ RetainNodes \/ RetainNodesEdges \/ PatchSccs

SpecGraph == InitGraph /\ [][NextGraph]_vars

\* the node ids a call may name: the nodes and one id that is never a node
Ids == 0..NumNodes

\* G and H have the same nodes and the same edge set at every id
Unchanged(G, H) ==
    /\ DOMAIN G.nodes = DOMAIN H.nodes
    /\ \A n \in Ids : get_edges(G, n) = get_edges(H, n)

\* e is a directed edge with its endpoints in two distinct regions of the list
Crossing(e, regions) ==
    /\ e.directed
    /\ \E i, j \in DOMAIN regions : i # j /\ e.p1 \in regions[i] /\ e.p2 \in regions[j]

\* C12: patch_sccs<true> replaces every directed edge with its endpoints in two
\* distinct listed regions by dedirect(e) in the buckets of both endpoints, and
\* leaves the nodes, every other edge and the number of edges as they are;
\* patch_sccs<false> changes nothing.
C12_PatchSccsEffect ==
    [][(pc' = "graph" /\ args'.op = "patch_sccs") =>
          IF args'.DIRESPECT
          THEN /\ g'.nodes = g.nodes
               /\ \A n \in Ids :
                     get_edges(g', n) =
                        {IF Crossing(e, args'.regions) THEN dedirect(e) ELSE e :
                            e \in get_edges(g, n)}
               /\ Cardinality(edges(g')) = Cardinality(edges(g))
          ELSE Unchanged(g, g')]_vars

\* patch_sccs<true> has run on two regions: the edge between them is undirected
\* and a directed edge inside the second region is still directed
C12_Witness ==
    /\ pc = "graph" /\ args.op = "patch_sccs" /\ args.DIRESPECT
    /\ Len(args.regions) = 2
    /\ \E e \in edges(g) :
          ~e.directed /\ e.p1 \in args.regions[1] /\ e.p2 \in args.regions[2]
    /\ \E e \in edges(g) :
          e.directed /\ {e.p1, e.p2} \subseteq args.regions[2] /\ e.p1 # e.p2

\* the ids whose bucket holds e
BucketsOf(G, e) == {n \in Ids : contains(get_edges(G, n), e)}

\* C13: add_edge(e) returns true iff both endpoints of e are nodes; after true e is
\* in the bucket of p1 alone when p1 = p2 and in the buckets of p1 and of p2
\* otherwise; after false the graph is as it was.
C13_AddEdge ==
    [][(pc' = "graph" /\ args'.op = "add_edge") =>
          /\ ret' = ({args'.e.p1, args'.e.p2} \subseteq DOMAIN g.nodes)
          /\ ret' => BucketsOf(g', args'.e) = {args'.e.p1, args'.e.p2}
          /\ ~ret' => g' = g]_vars

\* add_edge has returned true for a self-loop, which is in one bucket
C13_Witness ==
    /\ pc = "graph" /\ args.op = "add_edge" /\ ret = TRUE
    /\ is_cyclic(args.e)
    /\ BucketsOf(g, args.e) = {args.e.p1}
    /\ \E x \in edges(g) : ~is_cyclic(x)

\* the graph holds an edge equal to e
Stored(G, e) == BucketsOf(G, e) # {}

\* C14: remove_edge(e) for an edge the graph does not hold (its endpoints being
\* nodes or not) and add_edge / remove_edge for an edge with an endpoint that is no
\* node return false and leave the node set and every edge set as they are.
C14_UnknownIsNoOp ==
    [][(/\ pc' = "graph"
        /\ \/ args'.op = "remove_edge" /\ ~Stored(g, args'.e)
           \/ args'.op \in {"add_edge", "remove_edge"} /\ ~has_ends(g, args'.e))
         => (ret' = FALSE /\ Unchanged(g, g'))]_vars

\* C15: after any sequence of mutations a non-cyclic edge is in the bucket of p1
\* iff it is in the bucket of p2, a cyclic edge is in exactly one bucket, and
\* edges() yields every stored edge once: edge_count is the number of distinct
\* stored edges.
C15_BucketsAgree ==
    pc = "graph" =>
        LET stored == UNION {get_edges(g, n) : n \in Ids}
            yield  == [n \in DOMAIN g.edges |->
                          {e \in g.edges[n] : is_cyclic(e) \/ e.p1 = n}]
        IN  /\ \A e \in stored :
                 /\ BucketsOf(g, e) = {e.p1, e.p2}
                 /\ \A n \in BucketsOf(g, e) : e \in get_edges(g, n)
            /\ \A n, m \in DOMAIN yield : n # m => yield[n] \cap yield[m] = {}
            /\ UNION {yield[n] : n \in DOMAIN yield} = stored
            /\ Cardinality(edges(g)) = Cardinality({Key(e) : e \in stored})

\* a graph with a self-loop and two other edges, one of them just removed from it
C15_Witness ==
    /\ pc = "graph" /\ args.op = "remove_edge" /\ ret = TRUE
    /\ Cardinality(edges(g)) = 2
    /\ \E e \in edges(g) : is_cyclic(e)
    /\ \E e \in edges(g) : ~is_cyclic(e)
    /\ ~Stored(g, args.e)

\* C16: after any sequence of mutations from the empty graph both endpoints of
\* every edge in a bucket are nodes, and get_edges(n) is empty for every n that is
\* no node or has no incident edge.
C16_EndsAreNodes ==
    pc = "graph" =>
        /\ \A n \in Ids : \A e \in get_edges(g, n) :
              /\ {e.p1, e.p2} \subseteq DOMAIN g.nodes
              /\ n \in {e.p1, e.p2}
        /\ \A n \in Ids : n \notin DOMAIN g.nodes => get_edges(g, n) = {}
        /\ \A n \in Ids :
              (\A m \in Ids : \A e \in get_edges(g, m) : n \notin {e.p1, e.p2})
                 => get_edges(g, n) = {}

\* retain_nodes has dropped a node that had an edge, and another edge is left
C16_Witness ==
    /\ pc = "graph" /\ args.op = "retain_nodes"
    /\ DOMAIN g.nodes = args.f /\ Cardinality(args.f) = 2
    /\ edges(g) # {}
    /\ \E n \in DOMAIN g.edges : n \notin args.f \/ g.edges[n] = {}

\* ---------------------------------------------------------------------------
\* adapt::GraphAdapter: a graph together with the map from the nodes' own
\* (heavy) ids to the (light) ids of the graph.  The adapter is the record
\* [graph, fwd, last_id]; next_id is the generator of plow_solver!.
\* ---------------------------------------------------------------------------

ExternalIds == {"A", "B", "C"}

MaxAdds == 4

\* |_, id| (id, id+1): the light id is the accumulator, whatever the heavy id
next_id(id, acc) == <<acc, acc + 1>>

GraphAdapter_new(acc) == [graph |-> EmptyGraph, fwd |-> << >>, last_id |-> acc]

id2nid(A, n) == IF n \in DOMAIN A.fwd THEN Some(A.fwd[n]) ELSE None

nid2node(A, nid) == get_node(A.graph, nid)

nid2id(A, nid) == IF IsNone(nid2node(A, nid)) THEN None ELSE Some(nid2node(A, nid).v.id)

GraphAdapter_add_node(A, n) ==
    LET r == next_id(n.id, A.last_id)
    IN  [graph |-> add_node(A.graph, r[1], n),
         fwd |-> Put(A.fwd, n.id, r[1]),
         last_id |-> r[2]]

GraphAdapter_add_edge(A, e) == [A EXCEPT !.graph = add_edge(@, e)]

InitAdapter ==
    /\ pc = "adapter"
    /\ g = GraphAdapter_new(0)
    /\ args = [op |-> "new"]
    /\ ret = None
    /\ NoDriver

AdapterAddNode ==
    /\ pc = "adapter"
    /\ g.last_id < MaxAdds
    /\ \E id \in ExternalIds, x \in 0..1 :
          /\ g' = GraphAdapter_add_node(g, RoadNode(id, <<x, 0>>))
          /\ args' = [op |-> "add_node", id |-> id]
          /\ ret' = id2nid(g, id)
    /\ UNCHANGED <<pc, driver>>

AdapterAddEdge ==
    /\ pc = "adapter"
    /\ \E e \in GraphEdges :
          /\ Cardinality(edges(add_edge(g.graph, e))) <= 1
          /\ g' = GraphAdapter_add_edge(g, e)
          /\ args' = [op |-> "add_edge", e |-> e]
          /\ ret' = None
    /\ UNCHANGED <<pc, driver>>

NextAdapter == AdapterAddNode \/ AdapterAddEdge

SpecAdapter == InitAdapter /\ [][NextAdapter]_vars

\* the light ids of the graph whose node carries the heavy id
NidsOf(A, id) == {x \in DOMAIN A.graph.nodes : A.graph.nodes[x].id = id}

\* C17: when add_node is called with a heavy id that was added before, id2nid
\* of that id is the same before and after the call, the graph holds exactly
\* one node with that heavy id, and id2nid(nid2id(x)) = x for every light id x
\* of the graph.
C17_SameIdKeepsNid ==
    [][(pc = "adapter" /\ args'.op = "add_node" /\ ~IsNone(ret'))
        => /\ id2nid(g', args'.id) = id2nid(g, args'.id)
           /\ Cardinality(NidsOf(g', args'.id)) = 1
           /\ \A x \in DOMAIN g'.graph.nodes :
                 id2nid(g', nid2id(g', x).v) = Some(x)]_vars

\* ---------------------------------------------------------------------------
\* The driver and the iteration order of the hash sets
\* ---------------------------------------------------------------------------

\* the tour that solve_pwrp returns for vehicle i when every hash set is read
\* in one fixed order
FixedOrderTour(i) ==
    solve_pwrp(g, args.sns[i], Pending(alloc[i], {}), args.DIRESPECT,
               CHOOSE eo \in EdgeOrders(g) : TRUE,
               CHOOSE no \in LiveOrders(g) : TRUE).sol

\* C18: with reorder = No and recycle = No the tours returned are a function
\* of the inputs alone, whatever the iteration order of the edge sets: for one
\* vehicle and one iteration, the tour returned visits the nodes in the order
\* of the tour that solve_pwrp builds from the same graph, start and snowy
\* edges under a fixed order.
C18_ToursIndependentOfOrder ==
    (/\ pc = "done" /\ args.op = "road"
     /\ args.params.reorder = "No" /\ args.params.recycle = "No"
     /\ args.params.annealing.main_iterations = 1
     /\ Len(args.sns) = 1)
        => path_to_nodes(ret.solution[1], args.sns[1])
               = path_to_nodes(FixedOrderTour(1), args.sns[1])

\* ---------------------------------------------------------------------------
\* SpecFly: fly::solve on the triangle.  An edge of fly has no direction
\* (directed() is constantly false): it is the road edge with directed FALSE.
\* ---------------------------------------------------------------------------

\* fly::RoadEdge { p1, p2, discriminator, length }
FlyEdge(p1, p2, d, length) == RoadEdge(p1, p2, d, FALSE, length)

\* the road between a and b, written from a to b or from b to a
FlyRoad(a, b, flip) == IF flip THEN FlyEdge(b, a, NoDisc, 1) ELSE FlyEdge(a, b, NoDisc, 1)

\* the triangle on the nodes 0, 1, 2 with unit lengths, as the road lists that
\* describe it
FlyTriangles ==
    {<<FlyRoad(0, 1, f[1]), FlyRoad(1, 2, f[2]), FlyRoad(0, 2, f[3])>> :
        f \in [1..3 -> BOOLEAN]}

\* one drone, at a node of the triangle, given by node id or by coordinates
FlyDrones ==
    {<<LocNode(n)>> : n \in Nodes} \cup {<<LocCoordinates(<<n, 0>>)>> : n \in Nodes}

InitFly ==
    /\ pc = "start"
    /\ args \in {[op |-> "fly", roads |-> r, vehicles |-> v, sns |-> <<>>, snowy |-> {},
                   params |-> p, DIRESPECT |-> FALSE] :
                    r \in FlyTriangles, v \in FlyDrones, p \in ParameterSets}
    /\ g = BuildGraph(args.roads)
    /\ ret = None
    /\ NoDriver

\* fix_sccs!(g, sns, "drones")
FixSccsFly ==
    /\ pc = "located"
    /\ args.op = "fly"
    /\ \E eo \in EdgeOrders(g), no \in LiveOrders(g) : g' = fix_sccs_fly(g, args.sns, eo, no)
    /\ pc' = "fixed"
    /\ UNCHANGED <<args, ret, driver>>

\* g.solve::<false>(&sns, &locations, &g.graph.graph.edges().collect(), params):
\* every edge is to be surveyed (plow.rs 400, 94-104)
StartFly ==
    /\ pc = "fixed"
    /\ args.op = "fly"
    /\ \E eo \in EdgeOrders(g) :
          \E ia \in {initial_allocation(
                         g, [i \in DOMAIN args.sns |-> g.nodes[args.sns[i]].coordinates],
                         Iter(edges(g), eo))} :
              /\ args' = [args EXCEPT !.snowy = edges(g)]
              /\ IF ia.kind = "panic"
                 THEN /\ pc' = "panic"
                      /\ ret' = ia
                      /\ UNCHANGED driver
                 ELSE /\ pc' = IF args.params.annealing.main_iterations = 0
                               THEN "done" ELSE "reorder"
                      /\ ret' = ret
                      /\ alloc' = ia.v
                      /\ solution' = [i \in DOMAIN args.sns |-> <<>>]
                      /\ order' = [i \in DOMAIN args.sns |-> i]
                      /\ best' = [value |-> Infinity, max |-> Infinity]
                      /\ iter' = [mi |-> 0, ii |-> 0, cooled |-> 0]
                      /\ next' = <<>>
    /\ UNCHANGED g

NextFly == Locate \/ FixSccsFly \/ StartFly \/ Reorder \/ BuildTour \/ Evaluate \/ Improve

SpecFly == InitFly /\ [][NextFly]_vars

\* C19: on the undirected triangle with unit weights and one drone at a node A,
\* every run of the aerial solver returns for the drone a closed walk from A of
\* exactly 3 edges that traverses each of the three edges.
C19_TriangleTour ==
    (pc = "done" /\ args.op = "fly") =>
        /\ Len(ret.solution[1]) = 3
        /\ ClosedWalk(g, ret.solution[1], args.sns[1], FALSE)
        /\ \A e \in edges(g) : contains(Range(ret.solution[1]), e)

\* ---------------------------------------------------------------------------
\* The smallest required sets: one self-loop, and none
\* ---------------------------------------------------------------------------

\* the only snowy edge is a self-loop at the start node of some vehicle
LoopOnly ==
    /\ Cardinality(args.snowy) = 1
    /\ \A e \in args.snowy : is_cyclic(e) /\ \E i \in DOMAIN args.sns : args.sns[i] = e.p1

VehiclesConfigurations ==
    {[road |-> vr, sidewalk |-> vs] :
        vr \in {v \in SolveVehicleLists : Len(v) <= 1}, vs \in SolveVehicleLists}

VehiclesParameters ==
    {p \in ParameterSets :
        p.reorder = "No" /\ p.clearing = "All" /\ p.annealing.main_iterations = 1}

InitVehicles ==
    /\ pc = "start"
    /\ args \in {[op |-> o, roads |-> r, config |-> c, sns |-> <<>>, snowy |-> {},
                   params |-> p, DIRESPECT |-> TRUE] :
                    o \in {"road", "sidewalk"}, r \in SolveRoads,
                    c \in VehiclesConfigurations, p \in VehiclesParameters}
    /\ g = BuildGraph(args.roads)
    /\ ret = None
    /\ NoDriver

\* let sns = locate!(vehicles.sidewalk, g, "vehicles"), in road::solve
\* (plow.rs 466) and in sidewalk::solve (plow.rs 580) alike
LocateVehicles ==
    /\ pc = "start"
    /\ \E no \in NodeOrders(g) :
          LET r == locate(g, args.config.sidewalk, no)
          IN  IF IsNone(r)
              THEN pc' = "error" /\ args' = args
              ELSE pc' = "located" /\ args' = [args EXCEPT !.sns = r.v]
    /\ UNCHANGED <<g, ret, driver>>

\* sidewalk::solve: the snowy edges are sidewalks (plow.rs 582-594), of which
\* the graph has none, and solve starts (plow.rs 94-104)
StartSidewalk ==
    /\ pc = "fixed"
    /\ args.op = "sidewalk"
    /\ args' = [args EXCEPT !.snowy = {}]
    /\ pc' = IF args.params.annealing.main_iterations = 0 THEN "done" ELSE "reorder"
    /\ alloc' = initial_allocation(
                    g, [i \in DOMAIN args.sns |-> g.nodes[args.sns[i]].coordinates], <<>>).v
    /\ solution' = [i \in DOMAIN args.sns |-> <<>>]
    /\ order' = [i \in DOMAIN args.sns |-> i]
    /\ best' = [value |-> Infinity, max |-> Infinity]
    /\ iter' = [mi |-> 0, ii |-> 0, cooled |-> 0]
    /\ next' = <<>>
    /\ UNCHANGED <<g, ret>>

NextVehicles ==
    \/ LocateVehicles \/ FixSccs \/ Start \/ StartSidewalk
    \/ Reorder \/ BuildTour \/ Evaluate \/ Improve

SpecVehicles == InitVehicles /\ [][NextVehicles]_vars

\* the nodes that locate! can give for the location l on the graph of the roads
LocatedAt(roads, l) ==
    {locate1(BuildGraph(roads), l, no)[1] :
        no \in {o \in NodeOrders(BuildGraph(roads)) :
                   locate1(BuildGraph(roads), l, o) # <<>>}}

\* C21: the road solver returns one tour per entry of the `road` vehicle list,
\* the tour of entry i starting at the node located for that entry, and the
\* sidewalk solver returns one tour per entry of the `sidewalk` vehicle list.
C21_OneTourPerVehicle ==
    (pc = "done") =>
        /\ (args.op = "road") =>
              /\ Len(ret.solution) = Len(args.config.road)
              /\ \A i \in DOMAIN args.config.road :
                    /\ i \in DOMAIN args.sns
                    /\ args.sns[i] \in LocatedAt(args.roads, args.config.road[i])
        /\ (args.op = "sidewalk") => Len(ret.solution) = Len(args.config.sidewalk)

\* ---------------------------------------------------------------------------
\* SpecAlloc: PlowSolver::initial_allocation, one pass of its loop per step.
\* args.snowy is the sequence the iterator of the snowy edges yields, args.k
\* the number of edges taken from it.
\* ---------------------------------------------------------------------------

AllocPairs == <<<<0, 1>>, <<1, 2>>, <<2, 0>>, <<1, 1>>>>

\* the starting coordinates of the vehicles: those of the nodes they stand on
AllocLocs ==
    UNION {[1..k -> {InputNodes[n + 1].coordinates : n \in Nodes}] : k \in 1..MaxVehicles}

InitAlloc ==
    /\ pc = "alloc"
    /\ \E r \in RoadLists(AllocPairs, {1}, MaxEdges), locs \in AllocLocs :
          /\ g = BuildGraph(r)
          /\ \E snowy \in SUBSET edges(g), eo \in EdgeOrders(g) :
                args = [op |-> "initial_allocation", locs |-> locs,
                        snowy |-> Iter(snowy, eo), k |-> 0]
          /\ alloc = [i \in DOMAIN locs |-> {}]
    /\ ret = None
    /\ solution = <<>> /\ order = <<>> /\ best = <<>> /\ iter = <<>> /\ next = <<>>

\* `for e in snowy`: the next edge is allocated
AllocateEdge ==
    /\ pc = "alloc"
    /\ args.k < Len(args.snowy)
    /\ alloc' = AllocateOne(g, args.locs, alloc, args.snowy[args.k + 1])
    /\ args' = [args EXCEPT !.k = @ + 1]
    /\ UNCHANGED <<g, pc, ret, solution, order, best, iter, next>>

\* the iterator is exhausted: `allocations` is returned
AllocateReturn ==
    /\ pc = "alloc"
    /\ args.k = Len(args.snowy)
    /\ pc' = "allocated"
    /\ ret' = alloc
    /\ UNCHANGED <<g, args, alloc, solution, order, best, iter, next>>

NextAlloc == AllocateEdge \/ AllocateReturn

SpecAlloc == InitAlloc /\ [][NextAlloc]_vars

\* the vehicles that hold the edge e in the allocations al
Holders(al, e) == {i \in DOMAIN al : contains(al[i], e)}

\* C22: each pass of initial_allocation puts its edge into the allocation of
\* exactly one vehicle and touches no other allocation; that vehicle is the
\* one nearest to the edge's p1 or the one nearest to its p2, and when these
\* two differ it is one that has no more edges allocated so far than the
\* other; so every edge taken so far is in exactly one allocation.
C22_NearestWithFewer ==
    [][(pc = "alloc" /\ args'.k = args.k + 1) =>
        LET e   == args.snowy[args'.k]
            lv1 == closest(args.locs, g.nodes[e.p1].coordinates)
            lv2 == closest(args.locs, g.nodes[e.p2].coordinates)
        IN  /\ \E lv \in {lv1, lv2} :
                  /\ alloc' = [alloc EXCEPT ![lv] = @ \cup {e}]
                  /\ Cardinality(alloc[lv]) <= Cardinality(alloc[lv1])
                  /\ Cardinality(alloc[lv]) <= Cardinality(alloc[lv2])
            /\ \A k \in 1..args'.k :
                  Cardinality(Holders(alloc', args.snowy[k])) = 1]_vars

\* the third edge has just been allocated: the vehicles nearest to its two ends
\* differ, the one nearest to p1 held two edges and the other none
C22_Witness ==
    /\ pc = "alloc" /\ args.k = 3
    /\ LET e   == args.snowy[3]
           lv1 == closest(args.locs, g.nodes[e.p1].coordinates)
           lv2 == closest(args.locs, g.nodes[e.p2].coordinates)
       IN  /\ lv1 # lv2
           /\ Cardinality(alloc[lv1]) = 2
           /\ alloc[lv2] = {e}

\* ---------------------------------------------------------------------------
\* The phases of an iteration of PlowSolver::solve
\* ---------------------------------------------------------------------------

\* the pair (value_best, cost_max_best) of b is lexicographically at most that of c
LexLe(b, c) == Lt(b.value, c.value) \/ (b.value = c.value /\ Le(b.max, c.max))

\* C23: the tour phase of an iteration replaces solution, value_best and
\* cost_max_best by the new tour set and its figures iff value_next <
\* value_best, or value_next = value_best and cost_next_max < cost_max_best;
\* otherwise it leaves all three unchanged; and without recycle the pair
\* (value_best, cost_max_best) never increases lexicographically.
C23_TourPhaseAcceptance ==
    [][
        /\ (pc = "tours" /\ pc' = "improve") =>
               (IF \/ Lt(n64(next'.value), best.value)
                   \/ (n64(next'.value) = best.value /\ Lt(n64(next.max), best.max))
                THEN /\ solution' = next.sol
                     /\ best' = [value |-> n64(next'.value), max |-> n64(next.max)]
                ELSE /\ solution' = solution
                     /\ best' = best)
        /\ (pc \in {"reorder", "tours", "improve"} /\ args.params.recycle = "No") =>
               LexLe(best', best)
    ]_vars

\* the tour phase of the second iteration has ended, recycle being off: the new
\* tours differ from the accepted ones and have their value, yet not a lower
\* maximum, and are not accepted
C23_Witness ==
    /\ pc = "improve" /\ args.op = "road"
    /\ iter.mi = 1
    /\ args.params.recycle = "No"
    /\ n64(next.value) = best.value
    /\ next.sol # solution

\* sol_to_alloc runs in this step: the tour phase accepts under Clearing::All,
\* or the improve phase accepts (either acceptance lowers a best figure)
SolToAllocRuns ==
    /\ best' # best
    /\ \/ pc = "tours" /\ pc' = "improve" /\ args.params.clearing = "All"
       \/ pc = "improve"

\* the vehicles whose tour in sols contains the edge e
Traversers(sols, e) == {i \in DOMAIN sols : contains(Range(sols[i]), e)}

\* vehicle j comes after vehicle h in the order ord
Later(ord, h, j) ==
    \E a \in DOMAIN ord, b \in DOMAIN ord : a < b /\ ord[a] = h /\ ord[b] = j

\* C24: after sol_to_alloc every required edge that occurs in a tour is in the
\* allocation of exactly one vehicle, whose tour contains it; a vehicle that
\* held the edge and traverses it keeps it unless a later vehicle in order that
\* did not hold it also traverses it; required edges in no tour and edges that
\* are not required stay where they were.
C24_SolToAlloc ==
    [][SolToAllocRuns =>
        /\ \A e \in args.snowy :
              LET T == Traversers(solution', e)
              IN  IF T = {}
                  THEN Holders(alloc', e) = Holders(alloc, e)
                  ELSE /\ \E i \in T : Holders(alloc', e) = {i}
                       /\ \A h \in Holders(alloc, e) \cap T :
                             (h \in Holders(alloc', e)) <=>
                                ~\E j \in T \ Holders(alloc, e) : Later(order, h, j)
        /\ \A i \in DOMAIN alloc :
              {e \in alloc'[i] : ~contains(args.snowy, e)}
                 = {e \in alloc[i] : ~contains(args.snowy, e)}]_vars

\* sol_to_alloc has run in the tour phase on two tours that both contain a
\* required edge: the edge is held by the vehicle that comes last in order
C24_Witness ==
    /\ pc = "improve" /\ args.op = "road"
    /\ args.params.clearing = "All"
    /\ solution = next.sol /\ best.value = n64(next.value)
    /\ Len(order) = 2
    /\ \E e \in args.snowy :
          /\ Traversers(solution, e) = {1, 2}
          /\ Holders(alloc, e) = {order[2]}

\* ---------------------------------------------------------------------------
\* SpecReorder: the driver with up to ReorderVehicles vehicles on the roads
\* 0-1 and 1-2, two iterations, every reorder strategy
\* ---------------------------------------------------------------------------

ReorderVehicles == 3

ReorderPairs == <<<<0, 1>>, <<1, 2>>>>

InitReorder ==
    /\ pc = "start"
    /\ args \in {[op |-> "road", roads |-> r, vehicles |-> v, sns |-> <<>>, snowy |-> {},
                   params |-> p, DIRESPECT |-> TRUE] :
                    r \in RoadLists(ReorderPairs, {1}, MaxRoads),
                    v \in UNION {[1..k -> {LocNode(n) : n \in Nodes}] :
                                    k \in 0..ReorderVehicles},
                    p \in {q \in ParameterSets :
                              /\ q.recycle = "No" /\ q.clearing = "OnlyAllocated"
                              /\ q.annealing.main_iterations = MaxIter}}
    /\ g = BuildGraph(args.roads)
    /\ ret = None
    /\ NoDriver

SpecReorder == InitReorder /\ [][NextSolve]_vars

\* the order ord with the vehicles a and b exchanged
SwapVehicles(ord, a, b) ==
    [k \in DOMAIN ord |-> IF ord[k] = a THEN b ELSE IF ord[k] = b THEN a ELSE ord[k]]

\* C25: under Swap2MostLeast the reorder step exchanges the positions in order
\* of a vehicle whose accepted tour is longest and a vehicle whose accepted
\* tour is shortest, leaves every other position unchanged, and keeps order a
\* permutation of the vehicles.
C25_SwapMostLeast ==
    [][(/\ pc = "reorder" /\ pc' = "tours"
        /\ args.params.reorder = "Swap2MostLeast"
        /\ Len(order) >= 1)
         => /\ \E a \in DOMAIN solution, b \in DOMAIN solution :
                  /\ \A i \in DOMAIN solution : Len(solution[i]) <= Len(solution[a])
                  /\ \A i \in DOMAIN solution : Len(solution[i]) >= Len(solution[b])
                  /\ order' = SwapVehicles(order, a, b)
            /\ Range(order') = DOMAIN solution]_vars

\* the tours the recycle phase makes of the candidate tours of this iteration
SolImprov == recycle(next.sol, args.sns, order, next.costs).sol

\* cost_improv_max: the greatest cost of the recycled tours
CostImprovMax ==
    MaxCost([i \in DOMAIN SolImprov |->
                cycle_cost_compute2(SolImprov[i], alloc[i], args.snowy, args.params)])

VyclesNext == [i \in DOMAIN next.sol |-> path_to_nodes(next.sol[i], args.sns[i])]

\* the recycled tours are the tours of the iteration with the edges of the
\* positions iu..iv-1 of tour d moved in front of position ju of tour r, the
\* moved edges being a closed sub-walk of d at a node that r visits at ju
MovedCycle(d, r, iu, iv, ju) ==
    /\ iu < iv
    /\ VyclesNext[d][iu] = VyclesNext[d][iv]
    /\ VyclesNext[d][iu] = VyclesNext[r][ju]
    /\ SolImprov = [next.sol EXCEPT ![d] = Cut(next.sol[d], iu, iv),
                                    ![r] = Paste(next.sol[r], ju, SubSeq(next.sol[d], iu, iv - 1))]

\* C27: in a recycle pass over two vehicles (one pair) either nothing moves or
\* exactly one closed sub-walk, at a node both tours visit, moves from the tour
\* with the strictly higher tour-phase cost into the tour with the lower one.
C27_AsStated ==
    (pc = "improve" /\ args.params.recycle = "ExpensiveToCheap" /\ Len(order) = 2) =>
        \/ SolImprov = next.sol
        \/ \E d \in DOMAIN next.sol : \E r \in DOMAIN next.sol \ {d} :
               /\ next.costs[d] > next.costs[r]
               /\ \E iu \in DOMAIN VyclesNext[d], iv \in DOMAIN VyclesNext[d], ju \in DOMAIN VyclesNext[r] :
                      MovedCycle(d, r, iu, iv, ju)

\* what the pass does keep: at most one closed sub-walk at a shared node moves,
\* out of a tour whose tour-phase cost is not lower than the receiving tour's
C27_NotCheaperDonor ==
    (pc = "improve" /\ args.params.recycle = "ExpensiveToCheap" /\ Len(order) = 2) =>
        \/ SolImprov = next.sol
        \/ \E d \in DOMAIN next.sol : \E r \in DOMAIN next.sol \ {d} :
               /\ next.costs[d] >= next.costs[r]
               /\ \E iu \in DOMAIN VyclesNext[d], iv \in DOMAIN VyclesNext[d], ju \in DOMAIN VyclesNext[r] :
                      MovedCycle(d, r, iu, iv, ju)

\* a sub-cycle is about to move between two tours of the same tour-phase cost
C27_Witness ==
    /\ pc = "improve" /\ args.params.recycle = "ExpensiveToCheap" /\ Len(order) = 2
    /\ SolImprov # next.sol
    /\ next.costs[1] = next.costs[2]

\* ---------------------------------------------------------------------------
\* The allocations during the run of the driver (plow.rs 53-79, 162-173, 220-226)

\* the driver is past initial_allocation
DriverRuns == pc \in {"reorder", "tours", "improve", "done"}

\* C28: from initial_allocation on, through every sol_to_alloc of the tour
\* phase and of the improve phase, every required edge is in the allocation of
\* exactly one vehicle and no allocation holds an edge that is not required.
C28_AllocationsPartition ==
    (DriverRuns /\ args.op = "road") =>
        /\ \A e \in args.snowy : Cardinality(Holders(alloc, e)) = 1
        /\ \A i \in DOMAIN alloc : \A e \in alloc[i] : contains(args.snowy, e)

\* the improve phase has accepted recycled tours and its sol_to_alloc has given
\* a vehicle a required edge that its tour of the tour phase did not contain
C28_Witness ==
    /\ DriverRuns /\ args.op = "road"
    /\ pc \in {"reorder", "done"} /\ iter.mi = 1
    /\ args.params.recycle = "ExpensiveToCheap"
    /\ solution # next.sol
    /\ \E i \in DOMAIN alloc : \E e \in alloc[i] :
          /\ ~contains(Range(next.sol[i]), e)
          /\ contains(Range(solution[i]), e)

\* ---------------------------------------------------------------------------
\* SpecRecycle: the driver with up to ReorderVehicles vehicles on the roads
\* 0-1 and 1-2, one iteration, the recycle phase enabled
\* ---------------------------------------------------------------------------

InitRecycle ==
    /\ pc = "start"
    /\ args \in {[op |-> "road", roads |-> r, vehicles |-> v, sns |-> <<>>, snowy |-> {},
                   params |-> p, DIRESPECT |-> TRUE] :
                    r \in RoadLists(ReorderPairs, {1}, MaxRoads),
                    v \in UNION {[1..k -> {LocNode(n) : n \in Nodes}] :
                                    k \in 0..ReorderVehicles},
                    p \in {q \in ParameterSets :
                              /\ q.recycle = "ExpensiveToCheap"
                              /\ q.reorder \in {"No", "RandomReorder"}
                              /\ q.annealing.main_iterations = 1}}
    /\ g = BuildGraph(args.roads)
    /\ ret = None
    /\ NoDriver

SpecRecycle == InitRecycle /\ [][NextSolve]_vars

\* what the recycle phase makes of the candidate tours of this iteration: the
\* tours sol_improv and the node sequences vycles at the end of the pass
Recycled == recycle(next.sol, args.sns, order, next.costs)

\* the number of occurrences of the edge e in the tours sols
Occurrences(sols, e) ==
    SumSeq([i \in DOMAIN sols |-> Cardinality({k \in DOMAIN sols[i] : sols[i][k] = e})])

\* C29: the recycle phase only moves edges between tours: every edge occurs in
\* the recycled tours as often as in the tours of the iteration, every recycled
\* tour is a closed walk from the start of its own vehicle, and the node
\* sequences vycles are those obtained by walking the recycled tours.
C29_RecycleMovesEdges ==
    (pc = "improve" /\ args.params.recycle = "ExpensiveToCheap") =>
        /\ DOMAIN Recycled.sol = DOMAIN next.sol
        /\ \A i \in DOMAIN next.sol : \A k \in DOMAIN next.sol[i] :
              Occurrences(Recycled.sol, next.sol[i][k]) = Occurrences(next.sol, next.sol[i][k])
        /\ \A i \in DOMAIN Recycled.sol : \A k \in DOMAIN Recycled.sol[i] :
              Occurrences(next.sol, Recycled.sol[i][k]) = Occurrences(Recycled.sol, Recycled.sol[i][k])
        /\ \A i \in DOMAIN Recycled.sol :
              /\ ClosedWalk(g, Recycled.sol[i], args.sns[i], args.DIRESPECT)
              /\ Recycled.vycles[i] = path_to_nodes(Recycled.sol[i], args.sns[i])

\* the pass is about to change the tours of three vehicles: the transplants of
\* two pairs follow one another
C29_Witness ==
    /\ pc = "improve" /\ args.params.recycle = "ExpensiveToCheap"
    /\ Len(order) = 3
    /\ \A i \in DOMAIN next.sol : Recycled.sol[i] # next.sol[i]

\* ---------------------------------------------------------------------------
\* SpecTerm: solve_pwrp pass by pass (graph.rs 534-571), entered on its own or
\* by the driver for each tour; the program runs until it stops
\* ---------------------------------------------------------------------------

TermPairs == <<<<0, 1>>, <<1, 2>>, <<2, 0>>, <<1, 0>>>>

\* the locals of a call of solve_pwrp: the start, sol and alloc, the iteration
\* orders of the graph, and inside the retry loop the candidate set vs
PwrpFrame(sp, allocated, eo, no) ==
    [sp |-> sp, st |-> [sol |-> <<>>, alloc |-> allocated], eo |-> eo, no |-> no, vs |-> {}]

\* the state of the caller with the locals c of the call
WithCall(c) ==
    IF args.op = "solve_pwrp" THEN [call |-> c]
    ELSE [k |-> next.k, sol |-> next.sol, costs |-> next.costs, all |-> next.all,
          max |-> next.max, dun |-> next.dun, value |-> next.value, call |-> c]

\* nothing has been called yet
InitTerm ==
    /\ pc = "init"
    /\ g = BuildGraph(<<>>)
    /\ args = [op |-> "none"]
    /\ ret = None
    /\ NoDriver

\* solve_pwrp is entered on its own (graph.rs 515-524)
EnterPwrp ==
    /\ pc = "init"
    /\ g' \in {BuildGraph(r) : r \in RoadLists(TermPairs, {1}, MaxRoads)}
    /\ \E n \in Nodes, a \in Allocations(g'), d \in BOOLEAN,
          eo \in EdgeOrders(g'), no \in NodeOrders(g') :
          /\ args' = [op |-> "solve_pwrp", sp |-> n, alloc |-> a, DIRESPECT |-> d]
          /\ next' = [call |-> PwrpFrame(n, a, eo, no)]
    /\ pc' = "pwrp"
    /\ UNCHANGED <<ret, alloc, solution, order, best, iter>>

\* road::solve is entered (plow.rs 451-466)
EnterRoad ==
    /\ pc = "init"
    /\ args' \in {[op |-> "road", roads |-> r, vehicles |-> v, sns |-> <<>>,
                    snowy |-> {}, params |-> p, DIRESPECT |-> TRUE] :
                     r \in RoadLists(ReorderPairs, {1}, MaxRoads),
                     v \in SolveVehicleLists,
                     p \in {q \in ParameterSets : q.reorder = "No"}}
    /\ g' = BuildGraph(args'.roads)
    /\ pc' = "start"
    /\ UNCHANGED <<ret, alloc, solution, order, best, iter, next>>

\* the driver calls solve_pwrp for the vehicle order[k] (plow.rs 139)
CallTour ==
    /\ pc = "tours"
    /\ next.k <= Len(order)
    /\ \E eo \in EdgeOrders(g), no \in LiveOrders(g) :
          next' = WithCall(PwrpFrame(args.sns[order[next.k]],
                                 Pending(alloc[order[next.k]], next.dun), eo, no))
    /\ pc' = "pwrp"
    /\ UNCHANGED <<g, args, ret, alloc, solution, order, best, iter>>

\* solve_pwrp ends with the result r: the caller goes on
PwrpReturns(r) ==
    IF args.op = "solve_pwrp"
    THEN pc' = "done" /\ ret' = r /\ next' = next
    ELSE TourDone(r)

\* the test of `while !alloc.is_empty()` and, inside the loop, the search for
\* an allocated edge on the tour followed by "injecting a cycle" or by the
\* entry into "connecting to a distant isle" (graph.rs 534-547)
PwrpPass ==
    /\ pc = "pwrp"
    /\ \E c \in {next.call} :
       \E ns \in {path_to_nodes(c.st.sol, c.sp)} :
       \E i \in {FirstIndex([k \in DOMAIN ns |->
                      FindAllocated(g, ns[k], c.st.alloc, args.DIRESPECT, c.eo) # <<>>])} :
           IF c.st.alloc = {}
           THEN PwrpReturns([kind |-> "Ok", sol |-> c.st.sol])
           ELSE IF i # 0
           THEN \E u \in {ns[i]} :
                \E e \in {FindAllocated(g, u, c.st.alloc, args.DIRESPECT, c.eo)[1]} :
                \E p \in {pathfind(g, other(e, u), u, {}, args.DIRESPECT, c.eo, c.no)} :
                    IF IsNone(p)
                    THEN PwrpReturns([kind |-> "panic", msg |-> "it's a trap!"])
                    ELSE /\ next' = WithCall([c EXCEPT !.st = sol_inject(@, <<e>> \o p.v, i - 1)])
                         /\ pc' = "pwrp"
                         /\ ret' = ret
           ELSE /\ next' = WithCall([c EXCEPT !.vs = EntryNodes(c.st.alloc, args.DIRESPECT)])
                /\ pc' = "bridge"
                /\ ret' = ret
    /\ UNCHANGED <<g, args, alloc, solution, order, best, iter>>

\* the edge and the way back found at v by the retry loop (graph.rs 550-552), for
\* the result r of pathfind_regions
BridgeReturn(c, r) ==
    IF IsNone(r) THEN <<>>
    ELSE FindReturn(g, Iter(get_edges(g, r.v.u), c.eo), r.v.u, r.v.v, c.st.alloc,
                    args.DIRESPECT, c.eo, c.no)

\* one pass of the retry loop (graph.rs 548-564) and what follows its break
\* (graph.rs 565-570)
BridgePass ==
    /\ pc = "bridge"
    /\ \E c \in {next.call} :
       \E ns \in {path_to_nodes(c.st.sol, c.sp)} :
       \E r \in {pathfind_regions(g, Range(ns), c.vs, {}, args.DIRESPECT, c.eo, c.no)} :
       \E fr \in {BridgeReturn(c, r)} :
           IF IsNone(r)
           THEN PwrpReturns([kind |-> "Err", es |-> c.st.alloc])
           ELSE IF fr # <<>>
           THEN /\ next' = WithCall(
                       [c EXCEPT !.st = sol_inject(@, r.v.path \o <<fr[1].e>> \o fr[1].path,
                                                   LastVisit(ns, r.v.v)),
                                 !.vs = {}])
                /\ pc' = "pwrp"
                /\ ret' = ret
           ELSE /\ next' = WithCall([c EXCEPT !.vs = @ \ {r.v.u}])
                /\ pc' = "bridge"
                /\ ret' = ret
    /\ UNCHANGED <<g, args, alloc, solution, order, best, iter>>

NextTerm ==
    \/ EnterPwrp \/ EnterRoad \/ PwrpPass \/ BridgePass
    \/ Locate \/ FixSccs \/ Start \/ Reorder \/ CallTour \/ Evaluate \/ Improve

SpecTerm == InitTerm /\ [][NextTerm]_vars

\* the program has stopped: it returned, or a call aborted it
Stopped == pc \in {"done", "panic", "error"}

\* a pass of the main loop of solve_pwrp ends and the loop goes on
PassEnds == pc \in {"pwrp", "bridge"} /\ pc' = "pwrp"

\* a pass of the retry loop ends and the retry loop goes on
RetryGoesOn == pc = "bridge" /\ pc' = "bridge"

\* the steps a call of solve_pwrp can still take at most: a pass that goes on
\* takes an edge from alloc, a retry that goes on takes a node from vs
CallVariant(c, at) ==
    1 + Cardinality(c.st.alloc) * (NumNodes + 2)
      + (IF at = "bridge" THEN Cardinality(c.vs) ELSE NumNodes + 1)

\* a bound on CallVariant for a call of the driver, plus the call itself
TourVariant == Cardinality(args.snowy) * (NumNodes + 2) + NumNodes + 3

\* the steps of one iteration of the driver: reorder, the tours, evaluate, improve
IterationVariant == Len(order) * TourVariant + 3

\* a bound on the steps of a whole run
TopVariant == MaxIter * (MaxVehicles * (MaxEdges * (NumNodes + 2) + NumNodes + 3) + 3)

\* the steps the program can still take at most
Variant ==
    IF Stopped THEN 0
    ELSE IF pc = "init" THEN TopVariant + 4
    ELSE IF pc = "start" THEN TopVariant + 3
    ELSE IF pc = "located" THEN TopVariant + 2
    ELSE IF pc = "fixed" THEN TopVariant + 1
    ELSE IF args.op = "solve_pwrp" THEN CallVariant(next.call, pc)
    ELSE LET left == args.params.annealing.main_iterations - iter.mi
         IN  IF pc = "reorder" THEN left * IterationVariant
             ELSE IF pc = "tours"
             THEN (left - 1) * IterationVariant + (Len(order) - next.k + 1) * TourVariant + 2
             ELSE IF pc = "improve" THEN (left - 1) * IterationVariant + 1
             ELSE (left - 1) * IterationVariant + (Len(order) - next.k) * TourVariant + 2
                     + CallVariant(next.call, pc)

\* C30: a pass of the main loop of solve_pwrp that does not end the call
\* removes at least one edge from alloc, and a pass of the retry loop that
\* does not leave it removes exactly one node from the candidates; every step
\* of the program lowers a natural number, so every run stops; a run of the
\* driver in which no call aborts stops after exactly main_iterations
\* iterations and returns the accepted solution.
C30_Terminates ==
    /\ [][PassEnds => Cardinality(next'.call.st.alloc) < Cardinality(next.call.st.alloc)]_vars
    /\ [][RetryGoesOn => /\ next'.call.st = next.call.st
                         /\ \E v \in next.call.vs : next'.call.vs = next.call.vs \ {v}]_vars
    /\ [][Variant' < Variant /\ Variant' >= 0]_vars
    /\ [](pc = "done" /\ args.op = "road" =>
             /\ iter.mi = args.params.annealing.main_iterations
             /\ ret = [kind |-> "Ok", solution |-> solution])

\* solve_pwrp is in the retry loop, a candidate node already discarded and
\* others left to try
C30_Witness ==
    /\ pc = "bridge"
    /\ next.call.vs # {}
    /\ next.call.vs # EntryNodes(next.call.st.alloc, args.DIRESPECT)

=============================================================================
